---- MODULE Spec2Model ----
(***************************************************************************)
(* Model of the vmdl parsers (Mdl::read, Vvd::read, Vtx::read) and of the  *)
(* Model assembler built on them.                                          *)
(*                                                                         *)
(* A file is a byte slice.  The model keeps its length, the header fields  *)
(* the code decodes, and the contents of the records the header points to; *)
(* every read goes through the same two bounds checks as the code          *)
(* (`data.get(index..)` and `data.get(0..size_of::<T>())`).                *)
(***************************************************************************)
EXTENDS Integers, Sequences, FiniteSets, TLC

VARIABLES
    vvd_data,      \* the `data: &[u8]` given to Vvd::read
    vvd_result,    \* what Vvd::read returned
    strip_header,  \* a StripHeader decoded from a VTX file
    strip,         \* the Strip that Strip::read built from it
    triangles,     \* the triangles Strip::indices() yielded
    mdl_data,      \* the `data: &[u8]` given to Mdl::read
    overflow_checks, \* whether the build traps on integer overflow
    mdl_result,    \* what Mdl::read returned
    mesh,          \* a Mesh handle over parsed MDL, VTX and VVD values
    mesh_indices,  \* what Mesh::vertex_strip_indices() yielded
    mesh_vertices, \* what Mesh::vertices() yielded
    lib_model,     \* a Model assembled by Model::from_parts
    model_out,     \* what the accessor called on the Model returned
    frame_values,  \* a FrameValues chain and the frame looked up in it
    values_out,    \* what FrameValues::get returned
    walk,          \* the activation of FrameValues::get the lookup is in
    track,         \* the rotation and position data of an Animation
    track_out,     \* what Animation::rotation / position returned
    read_call,     \* a read_single::<T, _>(data, index) of a plain record T
    read_ret,      \* what read_single returned and the bytes it decoded
    quat,          \* a Quaternion48 or Quaternion64 read from an animation
    quat_w,        \* what its w() returned
    vtx_data,      \* the `data: &[u8]` given to Vtx::read
    vtx_result,    \* what Vtx::read returned
    frames_call,   \* the value data and frame count of an animated track
    frames_out,    \* the values read_animation collected for the track
    bone_handle,   \* a bone handle on a parsed Mdl, and the bone id asked about
    ancestors_iter,\* the BoneAncestorsIter of ancestors() on the handle
    tree_iter,     \* the BoneTreeIter of tree() on the handle
    affected       \* the run of is_affected_by(bone_id) on the handle

vvd_vars == <<vvd_data, vvd_result>>
strip_vars == <<strip_header, strip, triangles>>
mdl_vars == <<mdl_data, overflow_checks, mdl_result>>
mesh_vars == <<mesh, mesh_indices, mesh_vertices>>
model_vars == <<lib_model, model_out>>
values_vars == <<frame_values, values_out, walk>>
track_vars == <<track, track_out>>
read_vars == <<read_call, read_ret>>
quat_vars == <<quat, quat_w>>
vtx_vars == <<vtx_data, vtx_result>>
frames_vars == <<frames_call, frames_out>>
bone_vars == <<bone_handle, ancestors_iter, tree_iter, affected>>
vars == <<vvd_data, vvd_result, strip_header, strip, triangles,
          mdl_data, overflow_checks, mdl_result, mesh, mesh_indices,
          mesh_vertices, lib_model, model_out, frame_values, values_out, walk, track, track_out,
          read_call, read_ret,
          quat, quat_w,
          vtx_data, vtx_result,
          frames_call, frames_out,
          bone_handle, ancestors_iter, tree_iter, affected>>

(***************************************************************************)
(* Bounds of the model.                                                    *)
(***************************************************************************)
\* usize is 64 bits wide and TLC integers are 32 bits wide: a negative i32
\* cast to usize becomes UsizeModulus + x, far above every length and offset
\* the model uses, as 2^64 + x is in the program.
UsizeModulus == 536870912
\* vertex (and tangent) slots a VVD file of the model holds
MaxVerts == 2
\* fix-up slots a VVD file of the model holds
MaxFixups == 2
\* largest index_offset of a strip header
MaxStripOffset == 3
\* largest index_count of a strip header
MaxStripIndices == 6

(***************************************************************************)
(* Results: Ok(value), the ModelError variants, and a panic.               *)
(***************************************************************************)
NotRun == [tag |-> "NotRun"]
Ok(v) == [tag |-> "Ok", val |-> v]
OutOfBounds(what, off) == [tag |-> "OutOfBounds", data |-> what, offset |-> off]
Eof(n) == [tag |-> "Eof", needed |-> n]
StringError(kind) == [tag |-> "String", kind |-> kind]
Panic(why) == [tag |-> "Panic", why |-> why]

ErrorTags == {"IO", "String", "OutOfBounds", "Eof"}

\* `x as usize` for an i32 x
AsUsize(x) == IF x < 0 THEN UsizeModulus + x ELSE x

\* a / b as Rust divides i32 (towards zero), for b > 0
RustDiv(a, b) == IF a >= 0 THEN a \div b ELSE -((-a) \div b)

\* i32::MAX
I32Max == 2147483647

\* i32::saturating_add, for operands whose sum cannot go below i32::MIN
saturating_add(a, b) ==
    IF a > 0 /\ b > I32Max - a THEN I32Max ELSE a + b

(***************************************************************************)
(* lib.rs: the primitive decoder.                                          *)
(***************************************************************************)
\* element i (from 0) of index_range(index, count, size)
index_range(index, size, i) == AsUsize(index) + i * size

\* <T as Readable>::read accepting a record that ends one byte past the slice
ReadableAtMutOffByOne(len, index, size, tname) ==
    IF index > len THEN OutOfBounds(tname, index)
    ELSE IF size > (len - index) + 1 THEN Eof(size)
    ELSE Ok(index)

\* `data.get(index..)` then `<T as Readable>::read`, on a slice of `len` bytes
ReadableAt(len, index, size, tname) ==
    IF index > len THEN OutOfBounds(tname, index)
    ELSE IF size > len - index THEN Eof(size)
    ELSE Ok(index)

\* read_relative over a table of plain records: the offsets of the records
\* read, or the first error.  The walk stops at the first failing record.
\* the walk keeping what it read when a record does not fit
RECURSIVE read_relative_fromMutTruncate(_, _, _, _, _, _, _)
read_relative_fromMutTruncate(len, index, count, size, tname, i, acc) ==
    IF i >= AsUsize(count) THEN Ok(acc)
    ELSE LET at == index_range(index, size, i)
             r == ReadableAt(len, at, size, tname)
         IN IF r.tag # "Ok" THEN Ok(acc)
            ELSE read_relative_fromMutTruncate(len, index, count, size, tname,
                                               i + 1, Append(acc, at))

RECURSIVE read_relative_from(_, _, _, _, _, _, _)
read_relative_from(len, index, count, size, tname, i, acc) ==
    IF i >= AsUsize(count) THEN Ok(acc)
    ELSE LET at == index_range(index, size, i)
             r == ReadableAt(len, at, size, tname)
         IN IF r.tag # "Ok" THEN r
            ELSE read_relative_from(len, index, count, size, tname, i + 1,
                                    Append(acc, at))

read_relative(len, index, count, size, tname) ==
    read_relative_from(len, index, count, size, tname, 0, <<>>)

(***************************************************************************)
(* vvd/raw.rs: the VVD header and its tables.                              *)
(***************************************************************************)
VvdHeaderSize == 64
VertexSize == 48
TangentSize == 16
FixupSize == 12

\* where the files of the model keep their tables
VvdFixupBase == VvdHeaderSize
VvdVertexBase == VvdFixupBase + FixupSize * MaxFixups
VvdTangentBase == VvdVertexBase + VertexSize * MaxVerts
VvdFullLen == VvdTangentBase + TangentSize * MaxVerts

ZeroFixup == [lod |-> 0, source_vertex_id |-> 0, vertex_count |-> 0]

\* the VertexFileFixup decoded from the bytes at offset `at`
FixupAt(d, at) ==
    LET k == (at - VvdFixupBase) \div FixupSize
    IN IF at >= VvdFixupBase /\ (at - VvdFixupBase) % FixupSize = 0
          /\ k < Len(d.fixups)
       THEN d.fixups[k + 1]
       ELSE ZeroFixup

has_fixups(d) == d.fixup_count > 0

\* VvdHeader::vertex_indexes(lod) / tangent_indexes(lod) are Some
lod_present(d, lod) == lod < d.lod_count

\* slice.get(from..to) on a sequence: the sub-range, or "None"
SliceGet(s, from, to) ==
    IF from > to \/ to > Len(s) THEN <<"None">>
    ELSE <<"Some", SubSeq(s, from + 1, to)>>

(***************************************************************************)
(* vvd/mod.rs: Vvd::read.                                                  *)
(***************************************************************************)
\* the `to` bound of a fix-up's source range
FixupToMutInclusive(fixup) ==
    AsUsize(saturating_add(fixup.source_vertex_id, fixup.vertex_count)) + 1

FixupTo(fixup) ==
    AsUsize(saturating_add(fixup.source_vertex_id, fixup.vertex_count))

\* the loop with fix-ups of a lod above the requested one (0) skipped
RECURSIVE FixupLoopMutLodFilter(_, _, _, _, _, _)
FixupLoopMutLodFilter(d, source_vertices, source_tangents, i, vertices, tangents) ==
    IF i >= AsUsize(d.fixup_count)
    THEN Ok([vertices |-> vertices, tangents |-> tangents])
    ELSE LET at == index_range(d.fixup_index, FixupSize, i)
             r == ReadableAt(d.len, at, FixupSize, "vmdl::vvd::raw::VertexFileFixup")
         IN IF r.tag # "Ok" THEN r
            ELSE LET fixup == FixupAt(d, at)
                     from == AsUsize(fixup.source_vertex_id)
                     to == FixupTo(fixup)
                     vs == SliceGet(source_vertices, from, to)
                     ts == SliceGet(source_tangents, from, to)
                 IN IF fixup.lod > 0
                    THEN FixupLoopMutLodFilter(d, source_vertices, source_tangents,
                                               i + 1, vertices, tangents)
                    ELSE IF vs[1] = "None" THEN OutOfBounds("source_vertices", to)
                    ELSE IF ts[1] = "None" THEN OutOfBounds("source_tangents", to)
                    ELSE FixupLoopMutLodFilter(d, source_vertices, source_tangents,
                                               i + 1, vertices \o vs[2],
                                               tangents \o ts[2])

\* the fix-up loop of Vvd::read, from fix-up i on
RECURSIVE FixupLoop(_, _, _, _, _, _)
FixupLoop(d, source_vertices, source_tangents, i, vertices, tangents) ==
    IF i >= AsUsize(d.fixup_count)
    THEN Ok([vertices |-> vertices, tangents |-> tangents])
    ELSE LET at == index_range(d.fixup_index, FixupSize, i)
             r == ReadableAt(d.len, at, FixupSize, "vmdl::vvd::raw::VertexFileFixup")
         IN IF r.tag # "Ok" THEN r
            ELSE LET fixup == FixupAt(d, at)
                     from == AsUsize(fixup.source_vertex_id)
                     to == FixupTo(fixup)
                     vs == SliceGet(source_vertices, from, to)
                     ts == SliceGet(source_tangents, from, to)
                 IN IF vs[1] = "None" THEN OutOfBounds("source_vertices", to)
                    ELSE IF ts[1] = "None" THEN OutOfBounds("source_tangents", to)
                    ELSE FixupLoop(d, source_vertices, source_tangents, i + 1,
                                   vertices \o vs[2], tangents \o ts[2])

\* Vvd::read(data).  A vertex or tangent is named by the offset it was
\* decoded from.
VvdRead(d) ==
    LET header == ReadableAt(d.len, 0, VvdHeaderSize, "vmdl::vvd::raw::VvdHeader")
    IN IF header.tag # "Ok" THEN header
       ELSE IF ~lod_present(d, 0) THEN OutOfBounds("model_lod", 0)
       ELSE LET sv == read_relative(d.len, d.vertex_index, d.lod_vertex_count[1],
                                    VertexSize, "vmdl::vvd::raw::Vertex")
            IN IF sv.tag # "Ok" THEN sv
               ELSE LET st == read_relative(d.len, d.tangent_index,
                                            d.lod_vertex_count[1],
                                            TangentSize, "[f32; 4]")
                    IN IF st.tag # "Ok" THEN st
                       ELSE IF ~has_fixups(d)
                       THEN Ok([vertices |-> sv.val, tangents |-> st.val])
                       ELSE FixupLoop(d, sv.val, st.val, 0, <<>>, <<>>)

(***************************************************************************)
(* The VVD files Vvd::read is run on.                                      *)
(***************************************************************************)
FixupValues ==
    [lod : 0 .. 1, source_vertex_id : -1 .. MaxVerts, vertex_count : -1 .. MaxVerts]

FixupTables == [1 .. MaxFixups -> FixupValues]

VvdBase ==
    [len |-> VvdFullLen, lod_count |-> 1,
     lod_vertex_count |-> <<MaxVerts, 0, 0, 0, 0, 0, 0, 0>>,
     fixup_count |-> 0, fixup_index |-> VvdFixupBase,
     vertex_index |-> VvdVertexBase, tangent_index |-> VvdTangentBase,
     fixups |-> [k \in 1 .. MaxFixups |-> ZeroFixup]]

\* well laid out files holding every fix-up table
VvdWellLaidOut ==
    { [VvdBase EXCEPT !.fixups = t, !.fixup_count = MaxFixups] : t \in FixupTables }

\* well laid out files with every fix-up count and vertex count
VvdCounts ==
    { [VvdBase EXCEPT !.fixups = [k \in 1 .. MaxFixups |-> f], !.fixup_count = fc,
                      !.lod_vertex_count = <<n, 0, 0, 0, 0, 0, 0, 0>>] :
        f \in FixupValues, fc \in -1 .. MaxFixups, n \in 0 .. MaxVerts }

\* truncated files and files whose header fields point outside them
VvdDamaged ==
    { [VvdBase EXCEPT !.len = l, !.lod_count = lc, !.fixup_count = fc,
                      !.fixup_index = fi, !.vertex_index = vi,
                      !.tangent_index = ti,
                      !.lod_vertex_count = <<n, 0, 0, 0, 0, 0, 0, 0>>,
                      !.fixups = [k \in 1 .. MaxFixups |->
                                    [lod |-> 0, source_vertex_id |-> 0,
                                     vertex_count |-> 1]]] :
        l \in {0, VvdHeaderSize - 1, VvdHeaderSize, VvdVertexBase + VertexSize,
               VvdFullLen - 1, VvdFullLen},
        lc \in {0, 1},
        fc \in {0, 1, MaxFixups + 1},
        fi \in {VvdFixupBase, -1, VvdFullLen},
        vi \in {VvdVertexBase, -1, VvdFullLen + 1},
        ti \in {VvdTangentBase, VvdFullLen},
        n \in {-1, 1, MaxVerts} }

VvdInputs == VvdWellLaidOut \cup VvdCounts \cup VvdDamaged

(***************************************************************************)
(* vtx/raw.rs and vtx/mod.rs: strips.                                      *)
(***************************************************************************)
IS_TRI_LIST == 1
IS_TRI_STRIP == 2

\* StripFlags::contains
contains(flags, bit) == (flags \div bit) % 2 = 1

\* a Range<usize>
Range(start, end) == [start |-> start, end |-> end]
RangeLen(r) == IF r.end > r.start THEN r.end - r.start ELSE 0

\* StripHeader::index_indexes; the model keeps index_offset + index_count
\* inside i32
index_indexes(h) ==
    Range(AsUsize(h.index_offset), AsUsize(h.index_offset + h.index_count))

\* StripHeader::vertex_indexes
vertex_indexes(h) ==
    Range(AsUsize(h.vertex_offset), AsUsize(h.vertex_offset + h.vertex_count))

\* Strip::read
StripRead(h) ==
    [vertices |-> vertex_indexes(h), indices |-> index_indexes(h), flags |-> h.flags]

\* the triangle the TRI_STRIP branch emits for position i
StripTriangle(offset, i) ==
    LET cw == i % 2
        idx == offset + i
    IN <<idx, idx + 1 - cw, idx + 2 - cw>>

\* Strip::indices(): the triangles, in order
StripIndices(s) ==
    IF contains(s.flags, IS_TRI_STRIP)
    THEN [i \in 1 .. RangeLen(s.indices) |-> StripTriangle(s.indices.start, i - 1)]
    ELSE [k \in 1 .. ((RangeLen(s.indices) + 2) \div 3) |->
            LET i == s.indices.start + 3 * (k - 1) IN <<i, i + 1, i + 2>>]

StripHeaders ==
    { h \in [index_count : -1 .. MaxStripIndices, index_offset : -1 .. MaxStripOffset,
             vertex_count : {0}, vertex_offset : {0}, flags : 0 .. 3] :
        h.index_offset < 0 \/ h.index_offset + h.index_count >= 0 }

(***************************************************************************)
(* Specifications.                                                         *)
(***************************************************************************)
StripIdle == strip_header = NotRun /\ strip = NotRun /\ triangles = NotRun
VvdIdle == vvd_data = NotRun /\ vvd_result = NotRun
MdlIdle == mdl_data = NotRun /\ overflow_checks = NotRun /\ mdl_result = NotRun
MeshIdle == mesh = NotRun /\ mesh_indices = NotRun /\ mesh_vertices = NotRun
ModelIdle == lib_model = NotRun /\ model_out = NotRun
ValuesIdle == frame_values = NotRun /\ values_out = NotRun /\ walk = NotRun
TrackIdle == track = NotRun /\ track_out = NotRun
ReadIdle == read_call = NotRun /\ read_ret = NotRun
QuatIdle == quat = NotRun /\ quat_w = NotRun
VtxIdle == vtx_data = NotRun /\ vtx_result = NotRun
FramesIdle == frames_call = NotRun /\ frames_out = NotRun
BonesIdle == bone_handle = NotRun /\ ancestors_iter = NotRun /\ tree_iter = NotRun /\ affected = NotRun

\* Vvd::read is called on the file
VvdReadCall ==
    /\ vvd_data # NotRun
    /\ vvd_result = NotRun
    /\ vvd_result' = VvdRead(vvd_data)
    /\ UNCHANGED <<vvd_data, strip_vars, mdl_vars, mesh_vars,
                   model_vars, values_vars, track_vars, read_vars, quat_vars, vtx_vars,
                   frames_vars, bone_vars>>

InitVvd ==
    /\ vvd_data \in VvdInputs /\ vvd_result = NotRun
    /\ StripIdle /\ MdlIdle /\ MeshIdle /\ ModelIdle /\ ValuesIdle /\ TrackIdle /\ VtxIdle
    /\ BonesIdle
    /\ FramesIdle
    /\ QuatIdle
    /\ ReadIdle
NextVvd == VvdReadCall
SpecVvd == InitVvd /\ [][NextVvd]_vars

\* Strip::read builds the strip from its header
StripReadCall ==
    /\ strip_header # NotRun
    /\ strip = NotRun
    /\ strip' = StripRead(strip_header)
    /\ UNCHANGED <<vvd_vars, strip_header, triangles, mdl_vars, mesh_vars,
                   model_vars, values_vars, track_vars, read_vars, quat_vars, vtx_vars,
                   frames_vars, bone_vars>>

\* Strip::indices() is consumed to the end
StripIndicesCall ==
    /\ strip # NotRun
    /\ triangles = NotRun
    /\ triangles' = Ok(StripIndices(strip))
    /\ UNCHANGED <<vvd_vars, strip_header, strip, mdl_vars, mesh_vars,
                   model_vars, values_vars, track_vars, read_vars, quat_vars, vtx_vars,
                   frames_vars, bone_vars>>

InitStrip ==
    /\ strip_header \in StripHeaders /\ strip = NotRun /\ triangles = NotRun
    /\ VvdIdle /\ MdlIdle /\ MeshIdle /\ ModelIdle /\ ValuesIdle /\ TrackIdle /\ ReadIdle
    /\ BonesIdle
    /\ FramesIdle
    /\ VtxIdle
    /\ QuatIdle
NextStrip == StripReadCall \/ StripIndicesCall
SpecStrip == InitStrip /\ [][NextStrip]_vars

(***************************************************************************)
(* Vvd::read: what the claims are stated over.                             *)
(***************************************************************************)
VvdDone == vvd_data # NotRun /\ vvd_result # NotRun
VvdOk == VvdDone /\ vvd_result.tag = "Ok"

\* the fix-up table of the file: the fixup_count records at
\* fixup_index + 12 i
FixupTable(d) ==
    [k \in 1 .. d.fixup_count |-> FixupAt(d, AsUsize(d.fixup_index) + FixupSize * (k - 1))]

\* the raw LOD-0 arrays of the file
RawVertices(d) ==
    [k \in 1 .. d.lod_vertex_count[1] |-> AsUsize(d.vertex_index) + VertexSize * (k - 1)]
RawTangents(d) ==
    [k \in 1 .. d.lod_vertex_count[1] |-> AsUsize(d.tangent_index) + TangentSize * (k - 1)]

\* the sum of vertex_count over the first k fix-ups of a table
RECURSIVE CountSum(_, _)
CountSum(table, k) ==
    IF k = 0 THEN 0 ELSE CountSum(table, k - 1) + table[k].vertex_count

\* the sum of vertex_count over the fix-ups of lod 0 among the first k
RECURSIVE CountSumLod0(_, _)
CountSumLod0(table, k) ==
    IF k = 0 THEN 0
    ELSE CountSumLod0(table, k - 1)
         + (IF table[k].lod > 0 THEN 0 ELSE table[k].vertex_count)

\* the fix-up whose copied range holds output position p
Covering(table, p) ==
    CHOOSE k \in 1 .. Len(table) : CountSum(table, k - 1) < p /\ p <= CountSum(table, k)

\* output position p holds the element of `raw` that the covering fix-up
\* copies there
CopiedFrom(table, raw, p) ==
    LET k == Covering(table, p)
    IN raw[table[k].source_vertex_id + (p - CountSum(table, k - 1))]

\* the source range of a fix-up lies inside an array of n elements
InRange(fixup, n) ==
    /\ fixup.source_vertex_id >= 0
    /\ fixup.vertex_count >= 0
    /\ fixup.source_vertex_id + fixup.vertex_count <= n

\* C4: every Vvd returned Ok has as many tangents as vertices; with fix-ups
\* present that length is the sum of vertex_count over the fix-up table,
\* and without fix-ups it is lod_vertex_count[0].
C4_VvdLengths ==
    VvdOk =>
        /\ Len(vvd_result.val.vertices) = Len(vvd_result.val.tangents)
        /\ Len(vvd_result.val.vertices) =
              IF has_fixups(vvd_data)
              THEN CountSum(FixupTable(vvd_data), vvd_data.fixup_count)
              ELSE vvd_data.lod_vertex_count[1]

C4_Witness ==
    /\ VvdOk
    /\ has_fixups(vvd_data)
    /\ vvd_data.fixup_count = 2
    /\ \A k \in 1 .. 2 : FixupTable(vvd_data)[k].vertex_count > 0
    /\ Len(vvd_result.val.vertices) >= 3

\* C5: with fix-ups present the vertices returned are the concatenation, in
\* table order, of the ranges [source_vertex_id, source_vertex_id +
\* vertex_count) of the raw vertex array, and the tangents are built from
\* the same ranges of the raw tangent array; without fix-ups both are the
\* raw arrays, unchanged and in order.
C5_VvdFixupOrder ==
    VvdOk =>
        LET out == vvd_result.val
            table == FixupTable(vvd_data)
        IN IF has_fixups(vvd_data)
           THEN /\ Len(out.vertices) = CountSum(table, Len(table))
                /\ Len(out.tangents) = CountSum(table, Len(table))
                /\ \A p \in 1 .. Len(out.vertices) :
                      /\ out.vertices[p] = CopiedFrom(table, RawVertices(vvd_data), p)
                      /\ out.tangents[p] = CopiedFrom(table, RawTangents(vvd_data), p)
           ELSE /\ out.vertices = RawVertices(vvd_data)
                /\ out.tangents = RawTangents(vvd_data)

C5_Witness ==
    /\ VvdOk
    /\ has_fixups(vvd_data)
    /\ vvd_data.fixup_count = 2
    /\ FixupTable(vvd_data)[1].source_vertex_id > FixupTable(vvd_data)[2].source_vertex_id
    /\ \A k \in 1 .. 2 : FixupTable(vvd_data)[k].vertex_count > 0

\* C6 as claimed: a fix-up whose lod is above the requested LOD 0 adds
\* nothing to the output, so the output holds the vertices of the lod-0
\* fix-ups alone.
C6_LodAboveIgnored ==
    (VvdOk /\ has_fixups(vvd_data)) =>
        Len(vvd_result.val.vertices) =
            CountSumLod0(FixupTable(vvd_data), vvd_data.fixup_count)

\* C6 as amended: Vvd::read never looks at the lod of a fix-up.  In an Ok
\* result a fix-up of lod > 0 has its source range copied to its place in
\* the output like any other, and a fix-up of lod > 0 whose source range
\* leaves the raw array keeps the parse from returning Ok.
C6_EveryFixupApplied ==
    (VvdDone /\ has_fixups(vvd_data) /\ vvd_data.len >= VvdHeaderSize) =>
        LET table == FixupTable(vvd_data)
            raw == RawVertices(vvd_data)
        IN /\ VvdOk =>
                \A k \in 1 .. Len(table) :
                    table[k].lod > 0 =>
                        /\ InRange(table[k], Len(raw))
                        /\ SubSeq(vvd_result.val.vertices,
                                  CountSum(table, k - 1) + 1, CountSum(table, k))
                             = SubSeq(raw, table[k].source_vertex_id + 1,
                                      table[k].source_vertex_id + table[k].vertex_count)
           /\ (\E k \in 1 .. Len(table) :
                   table[k].lod > 0 /\ ~InRange(table[k], vvd_data.lod_vertex_count[1]))
                 => vvd_result.tag # "Ok"

C6_Witness ==
    /\ VvdOk
    /\ has_fixups(vvd_data)
    /\ \E k \in 1 .. vvd_data.fixup_count :
          /\ FixupTable(vvd_data)[k].lod > 0
          /\ FixupTable(vvd_data)[k].vertex_count > 0
    /\ Len(vvd_result.val.vertices) > 0


(***************************************************************************)
(* Strip::indices(): what the claims are stated over.                      *)
(***************************************************************************)
StripDone == strip_header # NotRun /\ strip # NotRun /\ triangles # NotRun


Max(a, b) == IF a >= b THEN a ELSE b

\* the number of triangle indices Strip::indices() generated
IndexCountOut == 3 * Len(triangles.val)

\* C7: a strip flagged TRI_STRIP with index_count = n generates exactly
\* 3 * max(0, n - 2) triangle indices (stated for the headers whose
\* index_offset is not negative).
C7_TriStripCount ==
    (StripDone /\ contains(strip_header.flags, IS_TRI_STRIP)
               /\ strip_header.index_offset >= 0) =>
        IndexCountOut = 3 * Max(0, strip_header.index_count - 2)

\* C8: a strip flagged TRI_LIST (and not TRI_STRIP) with index_count = n
\* generates exactly 3 * floor(n / 3) triangle indices, also when n is not
\* a multiple of 3 (stated for the headers whose index_offset is not
\* negative).
C8_TriListCount ==
    (StripDone /\ contains(strip_header.flags, IS_TRI_LIST)
               /\ ~contains(strip_header.flags, IS_TRI_STRIP)
               /\ strip_header.index_offset >= 0) =>
        IndexCountOut = 3 * RustDiv(strip_header.index_count, 3)

\* C9: triangle i of a TRI_STRIP uses the three distinct positions i, i+1,
\* i+2 of the strip's index range, the first two swapped on odd i, and there
\* are index_count - 2 of them: {0,1,2,3} expands to [0,1,2], [2,1,3].
C9_TriStripWinding ==
    (StripDone /\ contains(strip_header.flags, IS_TRI_STRIP)
               /\ strip_header.index_offset >= 0) =>
        LET o == strip_header.index_offset
            n == strip_header.index_count
        IN /\ Len(triangles.val) = Max(0, n - 2)
           /\ \A k \in 1 .. Len(triangles.val) :
                 LET i == k - 1
                 IN /\ triangles.val[k] =
                          IF i % 2 = 0 THEN <<o + i, o + i + 1, o + i + 2>>
                          ELSE <<o + i + 1, o + i, o + i + 2>>
                    /\ Cardinality({triangles.val[k][j] : j \in 1 .. 3}) = 3

(***************************************************************************)
(* MDL files: Mdl::read.                                                   *)
(*                                                                         *)
(* An MDL file of the model is its length, the header fields Mdl::read     *)
(* decodes, the fields of the records its tables point to (keyed by the    *)
(* offset of the record) and the bytes of the regions that are read byte   *)
(* by byte: strings, animation data, and the first bytes of the header,    *)
(* which hold `id` and `version`.  A byte the file does not list is 0.     *)
(***************************************************************************)
\* record sizes
StudioHeaderSize == 408
StudioHeader2Size == 256
MeshTextureSize == 64
BoneHeaderSize == 216
\* size_of::<Bone>() of StudioHeader::bone_indexes: `Bone` there is
\* crate::mdl::Bone, the parsed #[repr(C)] struct (two Strings, the header's
\* plain fields, an Option<ProceduralBone>), 400 bytes on a 64-bit target
BoneSize == 400
AnimationDescriptionHeaderSize == 100
AnimationHeaderSize == 4
AnimationBlockSize == 8
PoseParameterDescriptionHeaderSize == 20
BodyPartHeaderSize == 16
ModelHeaderSize == 148
FixedString0Size == 4
MeshHeaderSize == 116
U16Size == 2
U32Size == 4
Quaternion48Size == 6
Quaternion64Size == 8
AnimationValuePointerSize == 6
Vector48Size == 6
ValueHeaderSize == 2
AxisInterpBoneSize == 176
QuaternionInterpBoneSize == 48
AiMatBoneSize == 44
JiggleBoneSize == 140
\* records whose declarations are not in the sources at hand
StudioAttachmentHeaderSize == 92
HitBoxSetHeaderSize == 12
BoundingBoxHeaderSize == 68
\* `name: [u8; 64]`
FixedStringLen == 64
\* usize::MAX
UsizeMax == UsizeModulus - 1
\* u8 arithmetic
U8Modulus == 256

\* a sub-read: its Result and the absolute offsets it dereferenced
Sub(res, derefs) == [res |-> res, derefs |-> derefs]
IsOk(r) == r.tag = "Ok"
\* a sub-read made on the way of another: its offsets add to those followed
WithDerefs(derefs, r) == Sub(r.res, derefs \cup r.derefs)

\* the byte at an absolute offset
ByteAt(d, at) == IF at \in DOMAIN d.bytes THEN d.bytes[at] ELSE 0
U16At(d, at) == ByteAt(d, at) + 256 * ByteAt(d, at + 1)
\* i16 from its two little-endian bytes
I16At(d, at) == IF U16At(d, at) >= 32768 THEN U16At(d, at) - 65536 ELSE U16At(d, at)

\* the record of a table at an absolute offset
RecordAt(table, at, default) == IF at \in DOMAIN table THEN table[at] ELSE default

\* `data.iter().copied().take_while(|byte| *byte != 0)` from an offset
RECURSIVE TakeWhileNonZero(_, _)
TakeWhileNonZero(d, at) ==
    IF at >= d.len \/ ByteAt(d, at) = 0 THEN <<>>
    ELSE <<ByteAt(d, at)>> \o TakeWhileNonZero(d, at + 1)

\* String::from_utf8 / str::from_utf8 accept the bytes: the model's bytes are
\* ASCII or 255, and 255 occurs in no UTF-8 encoding
ValidUtf8(bytes) == \A i \in DOMAIN bytes : bytes[i] < 128

\* `.replace('\\', "/")`
ReplaceBackslash(bytes) == [i \in DOMAIN bytes |-> IF bytes[i] = 92 THEN 47 ELSE bytes[i]]

\* <String as ReadRelative>::read on the slice starting at `at`
StringRead(d, at) ==
    LET bytes == TakeWhileNonZero(d, at)
    IN IF ValidUtf8(bytes) THEN Ok(bytes) ELSE StringError("NonUTF8")

\* FixedString::try_from(name_buf)
FixedStringTryFrom(name_buf) ==
    IF \A i \in DOMAIN name_buf : name_buf[i] # 0 THEN StringError("NotNullTerminated")
    ELSE LET zero_pos == CHOOSE i \in DOMAIN name_buf :
                             name_buf[i] = 0 /\ \A j \in 1 .. i - 1 : name_buf[j] # 0
             name == SubSeq(name_buf, 1, zero_pos - 1)
         IN IF ValidUtf8(name) THEN Ok(name) ELSE StringError("NonUTF8")

\* read_single::<String, i32>(data, index) on the slice starting at `base`
ReadSingleString(d, base, index) ==
    IF index < 0 THEN Sub(OutOfBounds("alloc::string::String", UsizeMax), {})
    ELSE IF index > d.len - base
         THEN Sub(OutOfBounds("alloc::string::String", index), {base + index})
         ELSE Sub(StringRead(d, base + index), {base + index})

\* String::read(data.get(name_index as usize..).unwrap_or_default(), ())
\* followed by .replace('\\', "/"): a name offset past the end reads ""
ReadNameOrDefault(d, base, name_index) ==
    LET index == AsUsize(name_index)
    IN IF index > d.len - base THEN Sub(Ok(<<>>), {base + index})
       ELSE LET s == StringRead(d, base + index)
            IN Sub(IF IsOk(s) THEN Ok(ReplaceBackslash(s.val)) ELSE s, {base + index})

\* read_single::<T, _>(data, index) of a plain record T of `size` bytes, on
\* the slice starting at `base`, index being unsigned
ReadSinglePod(d, base, index, size, tname) ==
    Sub(ReadableAt(d.len - base, index, size, tname), {base + index})

(***************************************************************************)
(* mdl/raw/animation.rs: animation data.                                   *)
(***************************************************************************)
STUDIO_ANIM_RAWPOS == 1
STUDIO_ANIM_RAWROT == 2
STUDIO_ANIM_ANIMPOS == 4
STUDIO_ANIM_ANIMROT == 8
STUDIO_ANIM_DELTA == 16
STUDIO_ANIM_RAWROT2 == 32

\* FrameValues::get returning 0 at every node whose total is 0, the first
\* one included
RECURSIVE FrameValuesGetMutStopFirst(_, _, _, _)
FrameValuesGetMutStopFirst(d, oc, fbase, index) ==
    LET valid == ByteAt(d, fbase)
        total == ByteAt(d, fbase + 1)
        in_next_run(offset, next_header) ==
            IF ~IsOk(next_header.res) THEN next_header
            ELSE WithDerefs(next_header.derefs,
                            FrameValuesGetMutStopFirst(d, oc, fbase + offset, index - total))
        next_run(offset) ==
            in_next_run(offset, ReadSinglePod(d, fbase, offset, ValueHeaderSize,
                                              "vmdl::mdl::raw::animation::ValueHeader"))
        in_this_run(offset, r) ==
            IF IsOk(r.res) THEN Sub(Ok(I16At(d, fbase + offset)), r.derefs) ELSE r
        this_run(offset) ==
            in_this_run(offset, ReadSinglePod(d, fbase, offset, U16Size, "i16"))
    IN IF total = 0 THEN Sub(Ok(0), {})
       ELSE IF total <= index
       THEN IF oc /\ valid + 1 >= U8Modulus
            THEN Sub(Panic("attempt to add with overflow"), {})
            ELSE next_run(((valid + 1) % U8Modulus) * U16Size)
       ELSE this_run((IF valid > index THEN index + 1 ELSE valid) * U16Size)

\* FrameValues::get(index) for the FrameValues whose header is at `fbase`
RECURSIVE FrameValuesGet(_, _, _, _)
FrameValuesGet(d, oc, fbase, index) ==
    LET valid == ByteAt(d, fbase)
        total == ByteAt(d, fbase + 1)
        \* `FrameValues::read(&self.tail[offset..])?.get(index - total)`
        in_next_run(offset, next_header) ==
            IF ~IsOk(next_header.res) THEN next_header
            ELSE IF ByteAt(d, fbase + offset + 1) = 0
                 THEN Sub(Ok(0), next_header.derefs)
                 ELSE WithDerefs(next_header.derefs,
                                 FrameValuesGet(d, oc, fbase + offset, index - total))
        next_run(offset) ==
            in_next_run(offset, ReadSinglePod(d, fbase, offset, ValueHeaderSize,
                                              "vmdl::mdl::raw::animation::ValueHeader"))
        \* `read_single(&self.tail, offset)`
        in_this_run(offset, r) ==
            IF IsOk(r.res) THEN Sub(Ok(I16At(d, fbase + offset)), r.derefs) ELSE r
        this_run(offset) ==
            in_this_run(offset, ReadSinglePod(d, fbase, offset, U16Size, "i16"))
    IN IF total <= index
       THEN IF oc /\ valid + 1 >= U8Modulus
            THEN Sub(Panic("attempt to add with overflow"), {})
            ELSE next_run(((valid + 1) % U8Modulus) * U16Size)
       ELSE this_run((IF valid > index THEN index + 1 ELSE valid) * U16Size)

\* read_animation_values(data, frame, base_pointers), `data` starting at
\* `vbase`; k is the pointer the loop is at, acc the values so far
RECURSIVE ReadAnimationValuesFrom(_, _, _, _, _, _)
ReadAnimationValuesFrom(d, oc, vbase, frame, k, acc) ==
    IF k = 3 THEN acc
    ELSE LET base_pointer == U16At(d, vbase + U16Size * k)
             push(header, v) ==
                 IF ~IsOk(header.res) THEN Sub(header.res, acc.derefs \cup header.derefs)
                 ELSE IF ~IsOk(v.res)
                      THEN Sub(v.res, acc.derefs \cup header.derefs \cup v.derefs)
                      ELSE ReadAnimationValuesFrom(d, oc, vbase, frame, k + 1,
                               Sub(Ok(Append(acc.res.val, v.res.val)),
                                   acc.derefs \cup header.derefs \cup v.derefs))
         IN IF base_pointer = 0
            THEN ReadAnimationValuesFrom(d, oc, vbase, frame, k + 1,
                                         Sub(Ok(Append(acc.res.val, 0)), acc.derefs))
            ELSE push(ReadSinglePod(d, vbase, base_pointer, ValueHeaderSize,
                                    "vmdl::mdl::raw::animation::ValueHeader"),
                      FrameValuesGet(d, oc, vbase + base_pointer, frame % U8Modulus))

read_animation_values(d, oc, vbase, frame) ==
    ReadAnimationValuesFrom(d, oc, vbase, frame, 0, Sub(Ok(<<>>), {}))

\* `(0..frames).map(|frame| read_animation_values(..)).collect::<Result<_>>()`:
\* the values of every frame, or the error of the first frame that fails.
\* The values of frame f and of frame f + 256 are the same (`frame as u8`),
\* so a frame count that came from a negative i32 either fails in the first
\* 256 frames or collects until memory runs out.
ReadFrames(d, oc, vbase, frames) ==
    LET n == IF frames >= UsizeModulus \div 2 THEN U8Modulus ELSE frames
        collect(result) ==
            LET failing == {f \in DOMAIN result : ~IsOk(result[f].res)}
                first == CHOOSE f \in failing : \A g \in failing : f <= g
            IN IF failing # {}
               THEN Sub(result[first].res, UNION {result[f].derefs : f \in 0 .. first})
               ELSE IF n < frames
               THEN Sub(Panic("memory allocation failed"),
                        UNION {result[f].derefs : f \in DOMAIN result})
               ELSE Sub(Ok([f \in 1 .. n |-> result[f - 1].res.val]),
                        UNION {result[f].derefs : f \in DOMAIN result})
    IN collect([f \in 0 .. n - 1 |-> read_animation_values(d, oc, vbase, f)])

\* the rotation part of read_animation, `data` starting at `abase`
ReadRotationData(d, oc, abase, flags, frames) ==
    LET offset == AnimationHeaderSize
        raw(kind, size, r) ==
            IF IsOk(r.res)
            THEN Sub(Ok([kind |-> kind, at |-> abase + offset, size |-> size]), r.derefs)
            ELSE r
        animated(p, v) ==
            IF ~IsOk(p.res) THEN p
            ELSE IF ~IsOk(v.res) THEN Sub(v.res, p.derefs \cup v.derefs)
            ELSE Sub(Ok([kind |-> "Animated", values |-> v.res.val,
                         size |-> AnimationValuePointerSize]),
                     p.derefs \cup v.derefs)
    IN IF contains(flags, STUDIO_ANIM_RAWROT)
       THEN raw("Quaternion48", Quaternion48Size,
                ReadSinglePod(d, abase, offset, Quaternion48Size,
                              "vmdl::compressed_vector::Quaternion48"))
       ELSE IF contains(flags, STUDIO_ANIM_RAWROT2)
       THEN raw("Quaternion64", Quaternion64Size,
                ReadSinglePod(d, abase, offset, Quaternion64Size,
                              "vmdl::compressed_vector::Quaternion64"))
       ELSE IF contains(flags, STUDIO_ANIM_ANIMROT)
       THEN animated(ReadSinglePod(d, abase, offset, AnimationValuePointerSize,
                                   "vmdl::mdl::raw::animation::AnimationValuePointer"),
                     ReadFrames(d, oc, abase + offset, frames))
       ELSE Sub(Ok([kind |-> "None", size |-> 0]), {})

\* the position part of read_animation
ReadPositionData(d, oc, abase, flags, frames, position_offset) ==
    LET raw(r) ==
            IF IsOk(r.res)
            THEN Sub(Ok([kind |-> "Vector48", at |-> abase + position_offset]), r.derefs)
            ELSE r
        animated(p, v) ==
            IF ~IsOk(p.res) THEN p
            ELSE IF ~IsOk(v.res) THEN Sub(v.res, p.derefs \cup v.derefs)
            ELSE Sub(Ok([kind |-> "PositionValues", values |-> v.res.val]),
                     p.derefs \cup v.derefs)
    IN IF contains(flags, STUDIO_ANIM_RAWPOS)
       THEN raw(ReadSinglePod(d, abase, position_offset, Vector48Size,
                              "vmdl::compressed_vector::Vector48"))
       ELSE IF contains(flags, STUDIO_ANIM_ANIMPOS)
       THEN animated(ReadSinglePod(d, abase, position_offset, AnimationValuePointerSize,
                                   "vmdl::mdl::raw::animation::AnimationValuePointer"),
                     ReadFrames(d, oc, abase + position_offset, frames))
       ELSE Sub(Ok([kind |-> "None"]), {})

\* read_animation(data, header_offset, frames), `data` starting at `base`
read_animation(d, oc, base, header_offset, frames) ==
    IF header_offset > d.len - base
    THEN Sub(OutOfBounds("animation data", header_offset), {base + header_offset})
    ELSE LET abase == base + header_offset
             flags == ByteAt(d, abase + 1)
             animation(rotation_data, position_data) ==
                 IF AnimationHeaderSize > d.len - abase
                 THEN Sub(Eof(AnimationHeaderSize), {abase})
                 ELSE IF ~IsOk(rotation_data.res)
                 THEN Sub(rotation_data.res, {abase} \cup rotation_data.derefs)
                 ELSE IF ~IsOk(position_data.res)
                 THEN Sub(position_data.res,
                          {abase} \cup rotation_data.derefs \cup position_data.derefs)
                 ELSE Sub(Ok([animation |-> [bone |-> ByteAt(d, abase),
                                             flags |-> flags,
                                             rotation_data |-> rotation_data.res.val,
                                             position_data |-> position_data.res.val,
                                             scaled_by |-> -1],
                              next_offset |-> U16At(d, abase + 2)]),
                          {abase} \cup rotation_data.derefs \cup position_data.derefs)
             positioned(rotation_data) ==
                 animation(rotation_data,
                           ReadPositionData(d, oc, abase, flags, frames,
                               AnimationHeaderSize + rotation_data.res.val.size))
         IN positioned(ReadRotationData(d, oc, abase, flags, frames))

\* the loop of <AnimationDescription as ReadRelative>::read
RECURSIVE AnimationLoop(_, _, _, _, _, _)
AnimationLoop(d, oc, base, header, offset, acc) ==
    IF header.animation_block # 0
    THEN Sub(Panic("not yet implemented: read animation from animation block"),
             acc.derefs)
    ELSE LET push(r) ==
                 IF ~IsOk(r.res) THEN Sub(r.res, acc.derefs \cup r.derefs)
                 ELSE LET next == Sub(Ok(Append(acc.res.val, r.res.val.animation)),
                                      acc.derefs \cup r.derefs)
                      IN IF r.res.val.next_offset = 0 THEN next
                         ELSE AnimationLoop(d, oc, base, header,
                                            offset + r.res.val.next_offset, next)
         IN push(read_animation(d, oc, base, offset, AsUsize(header.frame_count)))

ZeroAnimationDescription ==
    [name_offset |-> 0, frame_count |-> 0, animation_block |-> 0,
     animation_index |-> 0]

\* <AnimationDescription as ReadRelative>::read, on the record at `at`
AnimationDescriptionRead(d, oc, at) ==
    LET header == RecordAt(d.local_animations, at, ZeroAnimationDescription)
        described(animations, name) ==
            IF ~IsOk(animations.res) THEN animations
            ELSE IF ~IsOk(name.res) THEN Sub(name.res, animations.derefs \cup name.derefs)
            ELSE Sub(Ok([name |-> name.res.val,
                         frame_count |-> AsUsize(header.frame_count),
                         animations |-> animations.res.val]),
                     animations.derefs \cup name.derefs)
    IN described(AnimationLoop(d, oc, at, header, AsUsize(header.animation_index),
                               Sub(Ok(<<>>), {})),
                 ReadSingleString(d, at, header.name_offset))

(***************************************************************************)
(* mdl/mod.rs, mdl/raw: the records of the tables.                         *)
(***************************************************************************)
\* size_of::<T::Header>() of the records read through read_relative
HeaderSize(kind) ==
    CASE kind = "TextureInfo" -> MeshTextureSize
      [] kind = "u32" -> U32Size
      [] kind = "u16" -> U16Size
      [] kind = "Bone" -> BoneHeaderSize
      [] kind = "AnimationDescription" -> AnimationDescriptionHeaderSize
      [] kind = "AnimationBlock" -> AnimationBlockSize
      [] kind = "PoseParameterDescription" -> PoseParameterDescriptionHeaderSize
      [] kind = "StudioAttachment" -> StudioAttachmentHeaderSize
      [] kind = "HitBoxSet" -> HitBoxSetHeaderSize
      [] kind = "BoundingBox" -> BoundingBoxHeaderSize
      [] kind = "BodyPart" -> BodyPartHeaderSize
      [] kind = "Model" -> ModelHeaderSize
      [] kind = "Mesh" -> MeshHeaderSize

ZeroBone ==
    [proc_type |-> 0, proc_index |-> 0, sz_name_index |-> 0,
     surface_prop_idx |-> 0, parent |-> 0]
ZeroNamed == [name_index |-> 0]
ZeroHitBoxSet == [name_index |-> 0, hitbox_count |-> 0, hitbox_index |-> 0]
ZeroBodyPart == [name_index |-> 0, model_count |-> 0, model_index |-> 0]
ZeroModel ==
    [name |-> [i \in 1 .. FixedStringLen |-> 0], mesh_count |-> 0,
     mesh_index |-> 0, vertex_index |-> 0]
ZeroMesh == [material |-> 0, vertex_index |-> 0]

\* ProceduralBoneType::try_from(proc_type).ok(), and the size of its record
ProceduralBoneTypes == 1 .. 5
ProceduralBoneSize(proc_type) ==
    CASE proc_type = 1 -> AxisInterpBoneSize
      [] proc_type = 2 -> QuaternionInterpBoneSize
      [] proc_type = 3 -> AiMatBoneSize
      [] proc_type = 4 -> AiMatBoneSize
      [] proc_type = 5 -> JiggleBoneSize

\* <Bone as ReadRelative>::read on the record at `at`
BoneRead(d, at) ==
    LET header == RecordAt(d.bones, at, ZeroBone)
        proc_at == at + AsUsize(header.proc_index)
        proc_derefs == IF header.proc_index # 0 THEN {proc_at} ELSE {}
        has_rules == header.proc_type \in ProceduralBoneTypes /\ header.proc_index # 0
        name == ReadSingleString(d, at, header.sz_name_index)
        surface_prop == ReadSingleString(d, at, header.surface_prop_idx)
    IN IF header.proc_index # 0 /\ AsUsize(header.proc_index) > d.len - at
       THEN Sub(OutOfBounds("bone surface property", AsUsize(header.proc_index)),
                proc_derefs)
       ELSE IF has_rules /\ ProceduralBoneSize(header.proc_type) > d.len - proc_at
       THEN Sub(Eof(ProceduralBoneSize(header.proc_type)), proc_derefs)
       ELSE IF ~IsOk(name.res) THEN Sub(name.res, proc_derefs \cup name.derefs)
       ELSE IF ~IsOk(surface_prop.res)
       THEN Sub(surface_prop.res, proc_derefs \cup name.derefs \cup surface_prop.derefs)
       ELSE Sub(Ok([name |-> name.res.val,
                    parent |-> header.parent,
                    procedural_rules |->
                        IF has_rules THEN header.proc_type ELSE 0,
                    surface_prop |-> surface_prop.res.val]),
                proc_derefs \cup name.derefs \cup surface_prop.derefs)

\* a record whose only variable-length part is its name, read with
\* `data.get(name_index..).unwrap_or_default()`
NamedRead(d, table, at) ==
    LET header == RecordAt(table, at, ZeroNamed)
        name == ReadNameOrDefault(d, at, header.name_index)
    IN IF ~IsOk(name.res) THEN name
       ELSE Sub(Ok([name |-> name.res.val, name_index |-> header.name_index]),
                name.derefs)

\* <PoseParameterDescription as ReadRelative>::read
PoseParameterDescriptionRead(d, at) ==
    LET header == RecordAt(d.pose_parameters, at, ZeroNamed)
        name == ReadSingleString(d, at, header.name_index)
    IN IF ~IsOk(name.res) THEN name
       ELSE Sub(Ok([name |-> name.res.val]), name.derefs)

RECURSIVE ReadTable(_, _, _, _, _, _, _, _, _)
RECURSIVE ReadRecord(_, _, _, _)

\* <HitBoxSet as ReadRelative>::read
HitBoxSetRead(d, oc, at) ==
    LET header == RecordAt(d.hit_box_sets, at, ZeroHitBoxSet)
        set(name, boxes) ==
            IF ~IsOk(name.res) THEN name
            ELSE IF ~IsOk(boxes.res) THEN Sub(boxes.res, name.derefs \cup boxes.derefs)
            ELSE Sub(Ok([name |-> name.res.val, boxes |-> boxes.res.val]),
                     name.derefs \cup boxes.derefs)
    IN set(ReadNameOrDefault(d, at, header.name_index),
           ReadTable(d, oc, "BoundingBox", at, header.hitbox_index, header.hitbox_count,
                     BoundingBoxHeaderSize, 0, Sub(Ok(<<>>), {})))

\* <BodyPart as ReadRelative>::read, with BodyPartHeader::model_indexes
BodyPartRead(d, oc, at) ==
    LET header == RecordAt(d.body_parts, at, ZeroBodyPart)
        part(models) ==
            IF ~IsOk(models.res) THEN models
            ELSE Sub(Ok([name_index |-> header.name_index, models |-> models.res.val]),
                     models.derefs)
    IN part(ReadTable(d, oc, "Model", at, header.model_index, header.model_count,
                      ModelHeaderSize - FixedString0Size, 0, Sub(Ok(<<>>), {})))

\* <Model as ReadRelative>::read, with ModelHeader::mesh_indexes
ModelRead(d, oc, at) ==
    LET header == RecordAt(d.models, at, ZeroModel)
        model(meshes, name) ==
            IF ~IsOk(meshes.res) THEN meshes
            ELSE IF ~IsOk(name) THEN Sub(name, meshes.derefs)
            ELSE Sub(Ok([name |-> name.val, meshes |-> meshes.res.val,
                         vertex_offset |-> RustDiv(header.vertex_index, VertexSize)]),
                     meshes.derefs)
    IN model(ReadTable(d, oc, "Mesh", at, header.mesh_index, header.mesh_count,
                       MeshHeaderSize, 0, Sub(Ok(<<>>), {})),
             FixedStringTryFrom(header.name))

\* <Mesh as ReadRelative>::read
MeshRead(d, at) ==
    LET header == RecordAt(d.meshes, at, ZeroMesh)
    IN Sub(Ok([material |-> header.material, vertex_offset |-> header.vertex_index]), {})

\* T::read(data, header) for the record of type `kind` at `at`
ReadRecord(d, oc, kind, at) ==
    CASE kind = "TextureInfo" -> NamedRead(d, d.textures, at)
      [] kind = "u32" -> Sub(Ok(RecordAt(d.texture_dirs, at, 0)), {})
      [] kind = "u16" -> Sub(Ok(U16At(d, at)), {})
      [] kind = "Bone" -> BoneRead(d, at)
      [] kind = "AnimationDescription" -> AnimationDescriptionRead(d, oc, at)
      [] kind = "AnimationBlock" -> Sub(Ok([at |-> at]), {})
      [] kind = "PoseParameterDescription" -> PoseParameterDescriptionRead(d, at)
      [] kind = "StudioAttachment" -> NamedRead(d, d.attachments, at)
      [] kind = "HitBoxSet" -> HitBoxSetRead(d, oc, at)
      [] kind = "BoundingBox" -> NamedRead(d, d.bounding_boxes, at)
      [] kind = "BodyPart" -> BodyPartRead(d, oc, at)
      [] kind = "Model" -> ModelRead(d, oc, at)
      [] kind = "Mesh" -> MeshRead(d, at)

\* read_relative(data, index_range(index, count, size)) for records of type
\* `kind`, `data` starting at `base`: record i is read at index + i * size,
\* and the walk stops at the first error
ReadTable(d, oc, kind, base, index, count, size, i, acc) ==
    IF i >= AsUsize(count) THEN acc
    ELSE LET rel == index_range(index, size, i)
             push(header, r) ==
                 IF ~IsOk(header) THEN Sub(header, acc.derefs \cup {base + rel})
                 ELSE IF ~IsOk(r.res)
                      THEN Sub(r.res, acc.derefs \cup {base + rel} \cup r.derefs)
                      ELSE ReadTable(d, oc, kind, base, index, count, size, i + 1,
                                     Sub(Ok(Append(acc.res.val, r.res.val)),
                                         acc.derefs \cup {base + rel} \cup r.derefs))
         IN push(ReadableAt(d.len - base, rel, HeaderSize(kind), kind),
                 ReadRecord(d, oc, kind, base + rel))

\* read_relative_iter::<String, _>(data, indexes) with the replace of
\* Mdl::read, collected
RECURSIVE ReadStrings(_, _, _, _)
ReadStrings(d, indexes, i, acc) ==
    IF i > Len(indexes) THEN acc
    ELSE LET index == indexes[i]
             s == StringRead(d, index)
         IN IF index > d.len
            THEN Sub(OutOfBounds("alloc::string::String", index), acc.derefs \cup {index})
            ELSE IF ~IsOk(s) THEN Sub(s, acc.derefs \cup {index})
            ELSE ReadStrings(d, indexes, i + 1,
                             Sub(Ok(Append(acc.res.val, ReplaceBackslash(s.val))),
                                 acc.derefs \cup {index}))

(***************************************************************************)
(* mdl/mod.rs: Mdl::read.                                                  *)
(***************************************************************************)
\* the four bytes of a header field at `at`
Bytes4(d, at) == <<ByteAt(d, at), ByteAt(d, at + 1), ByteAt(d, at + 2), ByteAt(d, at + 3)>>

\* `.then(|| read_single(..)).transpose()?` of an optional string
OptionalString(d, present, index) ==
    IF present
    THEN LET s == ReadSingleString(d, 0, index)
         IN IF IsOk(s.res) THEN Sub(Ok(<<"Some", s.res.val>>), s.derefs) ELSE s
    ELSE Sub(Ok(<<"None">>), {})

\* header.header2_index().map(|index| read_single::<StudioHeader2, _>(..))
Header2Read(d) ==
    IF d.h.studio_hdr2_index > 0
    THEN LET r == ReadSinglePod(d, 0, d.h.studio_hdr2_index, StudioHeader2Size,
                                "vmdl::mdl::raw::header2::StudioHeader2")
         IN IF IsOk(r.res) THEN Sub(Ok(<<"Some", d.h.studio_hdr2_index>>), r.derefs) ELSE r
    ELSE Sub(Ok(<<"None">>), {})

\* `texture.search_paths = texture_paths.clone()` for every texture
WithSearchPaths(textures, texture_paths) ==
    [i \in DOMAIN textures |->
        [name |-> textures[i].name, name_index |-> textures[i].name_index,
         search_paths |-> texture_paths]]

\* Animation::apply_bone_data for every animation whose bone exists: the
\* model keeps the raw values and the bone whose scales were applied
WithScales(local_animations, bones) ==
    [i \in DOMAIN local_animations |->
        LET animations == local_animations[i].animations
        IN [local_animations[i] EXCEPT !.animations =
               [j \in DOMAIN animations |->
                   IF animations[j].bone < Len(bones)
                   THEN [animations[j] EXCEPT !.scaled_by = animations[j].bone]
                   ELSE animations[j]]]]

\* one `let x = ...?;` of Mdl::read: nothing after the first error runs
Step(prev, field, r) ==
    IF ~IsOk(prev.res) THEN prev
    ELSE IF ~IsOk(r.res) THEN Sub(r.res, prev.derefs \cup r.derefs)
    ELSE Sub(Ok([prev.res.val EXCEPT ![field] = r.res.val]), prev.derefs \cup r.derefs)

MdlFields ==
    {"header", "header2", "name", "textures", "texture_dirs_indexes",
     "texture_paths", "skin_table", "bones", "surface_prop", "key_values",
     "local_animations", "animation_block_source", "animation_blocks",
     "pose_parameters", "attachments", "hit_boxes", "body_parts"}

\* <StudioHeader as Readable>::read(data) rejecting a version other than 48
HeaderReadMutVersionCheck(d) ==
    IF StudioHeaderSize > d.len THEN Sub(Eof(StudioHeaderSize), {})
    ELSE IF Bytes4(d, 4) # <<48, 0, 0, 0>> THEN Sub(OutOfBounds("version", 4), {})
    ELSE Sub(Ok([f \in MdlFields |->
                    IF f = "header"
                    THEN [id |-> Bytes4(d, 0), version |-> Bytes4(d, 4)]
                    ELSE <<>>]), {})

\* <StudioHeader as Readable>::read(data): the Mdl under construction, with
\* the header decoded and nothing else read yet
HeaderRead(d) ==
    IF StudioHeaderSize > d.len THEN Sub(Eof(StudioHeaderSize), {})
    ELSE Sub(Ok([f \in MdlFields |->
                    IF f = "header"
                    THEN [id |-> Bytes4(d, 0), version |-> Bytes4(d, 4)]
                    ELSE <<>>]), {})

\* Mdl::read(data), in a build with (oc) or without overflow checks: the
\* Result, and the offsets that were dereferenced on the way
MdlReadSub(d, oc) ==
    LET h == d.h
        none == Sub(Ok(<<>>), {})
        table(kind, index, count, size) ==
            ReadTable(d, oc, kind, 0, index, count, size, 0, none)
        s0 == HeaderRead(d)
        s1 == Step(s0, "header2", Header2Read(d))
        s2 == Step(s1, "name", Sub(FixedStringTryFrom(h.name), {}))
        s3 == Step(s2, "textures",
                   table("TextureInfo", h.texture_offset, h.texture_count, MeshTextureSize))
        s4 == Step(s3, "texture_dirs_indexes",
                   table("u32", h.texture_dir_offset, h.texture_dir_count, U32Size))
        texture_paths(prev) ==
            Step(prev, "texture_paths",
                 ReadStrings(d, prev.res.val.texture_dirs_indexes, 1, none))
        search_paths(prev) ==
            Step(prev, "textures",
                 Sub(Ok(WithSearchPaths(prev.res.val.textures, prev.res.val.texture_paths)),
                     {}))
        set_scales(prev) ==
            Step(prev, "local_animations",
                 Sub(Ok(WithScales(prev.res.val.local_animations, prev.res.val.bones)), {}))
        s5 == texture_paths(s4)
        s6 == search_paths(s5)
        s7 == Step(s6, "skin_table",
                   table("u16", h.skin_reference_offset,
                         h.skin_reference_count * h.skin_family_count, U16Size))
        s8 == Step(s7, "bones", table("Bone", h.bone_offset, h.bone_count, BoneSize))
        s9 == Step(s8, "surface_prop", ReadSingleString(d, 0, h.surface_prop_index))
        s10 == Step(s9, "key_values",
                    OptionalString(d, h.key_value_size > 0, h.key_value_index))
        s11 == Step(s10, "local_animations",
                    table("AnimationDescription", h.local_animation_offset,
                          h.local_animation_count, 1))
        s12 == set_scales(s11)
        s13 == Step(s12, "animation_block_source",
                    ReadSingleString(d, 0, h.anim_blocks_name_index))
        s14 == Step(s13, "animation_blocks",
                    table("AnimationBlock", h.anim_blocks_index, h.anim_blocks_count, 1))
        s15 == Step(s14, "pose_parameters",
                    table("PoseParameterDescription", h.local_pose_param_index,
                          h.local_pose_param_count, 1))
        s16 == Step(s15, "attachments",
                    table("StudioAttachment", h.attachment_offset, h.attachment_count, 1))
        s17 == Step(s16, "hit_boxes",
                    table("HitBoxSet", h.hitbox_offset, h.hitbox_count, 1))
        s18 == Step(s17, "body_parts",
                    table("BodyPart", h.body_part_offset, h.body_part_count,
                          BodyPartHeaderSize))
    IN s18

MdlRead(d, oc) == MdlReadSub(d, oc).res

(***************************************************************************)
(* The MDL files of the model.  Tables come first and strings last, as in  *)
(* files written by the compiler, so that a record reaches its name with a *)
(* positive relative offset.                                               *)
(***************************************************************************)
\* textures of a file
MaxTextures == 2
\* frames of an animation
MaxFrames == 2
\* bytes of animation data
AnimLen == 32

TexBase == StudioHeaderSize
DirBase == TexBase + MeshTextureSize * MaxTextures
SkinBase == DirBase + U32Size * 2
BoneBase == SkinBase + U16Size * 4
ProcBase == BoneBase + BoneHeaderSize
AnimDescBase == ProcBase + AxisInterpBoneSize
AnimBase == AnimDescBase + AnimationDescriptionHeaderSize
PoseBase == AnimBase + AnimLen
AttachBase == PoseBase + PoseParameterDescriptionHeaderSize
HitBoxSetBase == AttachBase + StudioAttachmentHeaderSize
BoundingBoxBase == HitBoxSetBase + HitBoxSetHeaderSize
BodyPartBase == BoundingBoxBase + 2 * BoundingBoxHeaderSize
ModelBase == BodyPartBase + 2 * BodyPartHeaderSize
MeshBase == ModelBase + 2 * ModelHeaderSize
StrBase == MeshBase + 2 * MeshHeaderSize
MdlFullLen == StrBase + 8

\* the strings at the end of the file: "A", "\", an invalid UTF-8 byte, and
\* "BC" running into the end of the file
StrA == StrBase
StrBackslash == StrBase + 2
StrBad == StrBase + 4
StrTail == StrBase + 6
StringBytes ==
    (StrBase :> 65) @@ (StrBase + 1 :> 0) @@ (StrBase + 2 :> 92) @@ (StrBase + 3 :> 0)
    @@ (StrBase + 4 :> 255) @@ (StrBase + 5 :> 0) @@ (StrBase + 6 :> 66)
    @@ (StrBase + 7 :> 67)

\* the first eight bytes of the file: `id` and `version`
HeadBytes(head) == [i \in 0 .. 7 |-> head[i + 1]]
\* "IDST", version 48
GoodHead == <<73, 68, 83, 84, 48, 0, 0, 0>>
Heads ==
    {GoodHead, <<73, 68, 83, 84, 49, 0, 0, 0>>, <<0, 0, 0, 0, 0, 0, 0, 0>>,
     <<255, 68, 83, 84, 48, 0, 0, 0>>, <<65, 66, 67, 68, 1, 1, 1, 1>>}

\* a 64-byte name buffer: the prefix, then the fill byte
NameBuf(prefix, fill) ==
    [i \in 1 .. FixedStringLen |-> IF i <= Len(prefix) THEN prefix[i] ELSE fill]
NameBufs == {NameBuf(<<65>>, 0), NameBuf(<<65>>, 66), NameBuf(<<255>>, 0)}

ZeroStudioHeader ==
    [studio_hdr2_index |-> 0, name |-> NameBuf(<<65>>, 0),
     texture_count |-> 0, texture_offset |-> 0,
     texture_dir_count |-> 0, texture_dir_offset |-> 0,
     skin_reference_count |-> 0, skin_family_count |-> 0, skin_reference_offset |-> 0,
     bone_count |-> 0, bone_offset |-> 0,
     surface_prop_index |-> StrA,
     key_value_size |-> 0, key_value_index |-> 0,
     local_animation_count |-> 0, local_animation_offset |-> 0,
     anim_blocks_name_index |-> StrA, anim_blocks_count |-> 0, anim_blocks_index |-> 0,
     local_pose_param_count |-> 0, local_pose_param_index |-> 0,
     attachment_count |-> 0, attachment_offset |-> 0,
     hitbox_count |-> 0, hitbox_offset |-> 0,
     body_part_count |-> 0, body_part_offset |-> 0]

\* a file with empty tables
MdlEmpty ==
    [len |-> MdlFullLen, bytes |-> HeadBytes(GoodHead) @@ StringBytes,
     h |-> ZeroStudioHeader,
     textures |-> <<>>, texture_dirs |-> <<>>, bones |-> <<>>,
     local_animations |-> <<>>, pose_parameters |-> <<>>, attachments |-> <<>>,
     hit_box_sets |-> <<>>, bounding_boxes |-> <<>>, body_parts |-> <<>>,
     models |-> <<>>, meshes |-> <<>>]

\* a file with one valid record in every table (MaxTextures textures)
MdlFull ==
    [MdlEmpty EXCEPT
        !.h = [ZeroStudioHeader EXCEPT
                  !.texture_count = MaxTextures, !.texture_offset = TexBase,
                  !.texture_dir_count = 1, !.texture_dir_offset = DirBase,
                  !.skin_reference_count = 2, !.skin_family_count = 2,
                  !.skin_reference_offset = SkinBase,
                  !.bone_count = 1, !.bone_offset = BoneBase,
                  !.local_animation_count = 1, !.local_animation_offset = AnimDescBase,
                  !.local_pose_param_count = 1, !.local_pose_param_index = PoseBase,
                  !.attachment_count = 1, !.attachment_offset = AttachBase,
                  !.hitbox_count = 1, !.hitbox_offset = HitBoxSetBase,
                  !.body_part_count = 1, !.body_part_offset = BodyPartBase],
        !.textures = [at \in {TexBase + MeshTextureSize * i : i \in 0 .. MaxTextures - 1}
                        |-> [name_index |-> StrA - at]],
        !.texture_dirs = (DirBase :> StrBackslash),
        !.bones = (BoneBase :> [proc_type |-> 1, proc_index |-> ProcBase - BoneBase,
                                sz_name_index |-> StrA - BoneBase,
                                surface_prop_idx |-> StrA - BoneBase, parent |-> -1]),
        !.local_animations =
            (AnimDescBase :> [name_offset |-> StrA - AnimDescBase, frame_count |-> 1,
                              animation_block |-> 0,
                              animation_index |-> AnimBase - AnimDescBase]),
        !.pose_parameters = (PoseBase :> [name_index |-> StrA - PoseBase]),
        !.attachments = (AttachBase :> [name_index |-> StrA - AttachBase]),
        !.hit_box_sets =
            (HitBoxSetBase :> [name_index |-> StrA - HitBoxSetBase, hitbox_count |-> 1,
                               hitbox_index |-> BoundingBoxBase - HitBoxSetBase]),
        !.bounding_boxes = (BoundingBoxBase :> [name_index |-> StrA - BoundingBoxBase]),
        !.body_parts =
            (BodyPartBase :> [name_index |-> 0, model_count |-> 1,
                              model_index |-> ModelBase - BodyPartBase]),
        !.models =
            (ModelBase :> [name |-> NameBuf(<<65>>, 0), mesh_count |-> 1,
                           mesh_index |-> MeshBase - ModelBase,
                           vertex_index |-> VertexSize]),
        !.meshes = (MeshBase :> [material |-> 0, vertex_index |-> 1])]

\* files that differ in the first eight bytes, in where the header's strings
\* are, and in the name buffer
MdlHeadFiles ==
    {[MdlEmpty EXCEPT !.bytes = HeadBytes(head) @@ StringBytes,
                      !.h.surface_prop_index = sp,
                      !.h.anim_blocks_name_index = ab,
                      !.h.key_value_size = kv[1],
                      !.h.key_value_index = kv[2],
                      !.h.studio_hdr2_index = kv[3],
                      !.h.name = name] :
        head \in Heads,
        sp \in {0, 4, StrA, StrBad, StrTail, -1, MdlFullLen, MdlFullLen + 1},
        ab \in {StrA, 0},
        kv \in {<<0, 0, 0>>, <<1, StrA, 0>>, <<1, 0, TexBase>>, <<-1, -1, MdlFullLen>>},
        name \in NameBufs}

\* where the name of a record at `at` may point
NameChoices(at) ==
    {StrA - at, StrBackslash - at, StrBad - at, StrTail - at, MdlFullLen + 1 - at, -1}

TextureOffsets == {TexBase + MeshTextureSize * i : i \in 0 .. MaxTextures - 1}

\* files that differ in the extent of the texture table; a count of -1 walks
\* to the end of the file, and comes with the short files only
MdlTextureTableFiles ==
    {[MdlEmpty EXCEPT !.len = extent[1],
                      !.h.texture_count = extent[2],
                      !.h.texture_offset = offset,
                      !.h.surface_prop_index = sp,
                      !.h.anim_blocks_name_index = sp,
                      !.textures = [at \in TextureOffsets |-> [name_index |-> StrA - at]]] :
        extent \in {e \in {MdlFullLen, TexBase + MeshTextureSize, TexBase + 1}
                         \X (-1 .. MaxTextures) : e[1] < MdlFullLen \/ e[2] >= 0},
        offset \in {TexBase, -1, MdlFullLen, MdlFullLen + 1},
        sp \in {StrA, 0}}

\* files that differ in where texture names and texture directories point
MdlTextureNameFiles ==
    {[MdlEmpty EXCEPT !.h.texture_count = MaxTextures,
                      !.h.texture_offset = TexBase,
                      !.h.texture_dir_count = dirs[1],
                      !.h.texture_dir_offset = DirBase,
                      !.texture_dirs = (DirBase :> dirs[2]) @@ (DirBase + U32Size :> StrA),
                      !.textures = [at \in TextureOffsets |->
                                       [name_index |-> names[at] - at]]] :
        dirs \in {0, 1, 2} \X {StrBackslash, 0, StrBad, MdlFullLen + 1},
        names \in [TextureOffsets ->
                      {StrA, StrBackslash, StrBad, StrTail, MdlFullLen + 1, -1}]}

\* files that differ in their bone, in the parent of their bone and in the
\* skin table
MdlBoneFiles ==
    {[MdlEmpty EXCEPT !.h.bone_count = count,
                      !.h.bone_offset = BoneBase,
                      !.bones = (BoneBase :>
                                    [proc_type |-> proc[1], proc_index |-> proc[2],
                                     sz_name_index |-> name, surface_prop_idx |-> name,
                                     parent |-> -1])] :
        count \in {0, 1},
        proc \in {0, 1, 2, 3, 4, 5, 6} \X {0, ProcBase - BoneBase, MdlFullLen,
                                  MdlFullLen - BoneBase - 10},
        name \in {StrA - BoneBase, StrBad - BoneBase, -1}}
    \cup
    {[MdlEmpty EXCEPT !.h.bone_count = 1,
                      !.h.bone_offset = BoneBase,
                      !.bones = (BoneBase :>
                                    [proc_type |-> 0, proc_index |-> 0,
                                     sz_name_index |-> StrA - BoneBase,
                                     surface_prop_idx |-> StrA - BoneBase,
                                     parent |-> parent])] :
        parent \in {-2, 0, 1}}
    \cup
    {[MdlEmpty EXCEPT !.h.skin_reference_count = skin[1],
                      !.h.skin_family_count = skin[2],
                      !.h.skin_reference_offset = skin[3]] :
        skin \in (0 .. 2) \X (0 .. 2) \X {SkinBase, -1, MdlFullLen - 3}}

\* the bytes of an animation at AnimBase: header, value pointers, and one
\* value stream
AnimationBytes(bone, flags, next_offset, pointer, valid, total) ==
    (AnimBase :> bone) @@ (AnimBase + 1 :> flags) @@ (AnimBase + 2 :> next_offset)
    @@ (AnimBase + 4 :> pointer)
    @@ (AnimBase + 10 :> valid) @@ (AnimBase + 11 :> total)
    @@ (AnimBase + 12 :> 2) @@ (AnimBase + 13 :> 1)
    @@ (AnimBase + 14 :> 1) @@ (AnimBase + 15 :> 1)
    @@ (AnimBase + 16 :> 255) @@ (AnimBase + 17 :> 255)

MdlAnimation(count, block, frames, index, bytes) ==
    [MdlEmpty EXCEPT !.bytes = HeadBytes(GoodHead) @@ StringBytes @@ bytes,
                     !.h.local_animation_count = count,
                     !.h.local_animation_offset = AnimDescBase,
                     !.local_animations =
                         (AnimDescBase :>
                             [name_offset |-> StrA - AnimDescBase,
                              frame_count |-> frames, animation_block |-> block,
                              animation_index |-> index])]

AnimationFlagChoices ==
    {0, STUDIO_ANIM_RAWPOS, STUDIO_ANIM_RAWROT, STUDIO_ANIM_RAWROT2,
     STUDIO_ANIM_ANIMPOS, STUDIO_ANIM_ANIMROT,
     STUDIO_ANIM_ANIMPOS + STUDIO_ANIM_ANIMROT}

\* files that differ in their animation description and animation data
MdlAnimationFiles ==
    {MdlAnimation(count, block, 1, index, AnimationBytes(0, flags, next, 6, 1, 1)) :
        count \in {0, 1}, block \in {0, 1, -1},
        index \in {AnimBase - AnimDescBase, MdlFullLen, -1},
        flags \in AnimationFlagChoices, next \in {0, 16}}
    \cup
    {MdlAnimation(1, 0, stream[1], AnimBase - AnimDescBase,
                  AnimationBytes(1, STUDIO_ANIM_ANIMROT, 0, pointer, stream[2], total)) :
        stream \in {s \in (-1 .. MaxFrames) \X {0, 1, 255} : s[1] >= 0 \/ s[2] < 255},
        pointer \in {0, 6, 200}, total \in {0, 1, 2}}

\* files that differ in their chain of animation records: a record at
\* AnimBase, maybe animated with a value stream at AnimBase + 10, a record
\* at AnimBase + 16 (bone 255, all flags), and zero bytes after the
\* animation data; the files are whole or end in or before the second
\* record, and their strings are read inside of what is left
MdlChainFiles ==
    {[MdlAnimation(1, 0, frames, AnimBase - AnimDescBase,
                   (AnimBase + 18 :> next[2] % U8Modulus)
                   @@ (AnimBase + 19 :> next[2] \div U8Modulus)
                   @@ AnimationBytes(7, flags, next[1], 6, valid, 1))
        EXCEPT !.len = len,
               !.h.surface_prop_index = 0,
               !.h.anim_blocks_name_index = 0,
               !.local_animations[AnimDescBase].name_offset = 8] :
        len \in {MdlFullLen, AnimBase + 18, AnimBase + 16, AnimBase + 12},
        flags \in {0, STUDIO_ANIM_ANIMROT},
        next \in {0, 16} \X {0, 16, 255 * U8Modulus},
        frames \in {1, MaxFrames},
        valid \in {1, U8Modulus - 1}}

\* files that differ in pose parameters, attachments, hitbox sets and body
\* parts
MdlTailFiles ==
    {[MdlFull EXCEPT !.h.local_pose_param_count = count[1],
                     !.h.attachment_count = count[2],
                     !.pose_parameters = (PoseBase :> [name_index |-> names[1]]),
                     !.attachments = (AttachBase :> [name_index |-> names[2]])] :
        count \in {0, 1} \X {0, 1},
        names \in {StrA - PoseBase, -1, MdlFullLen} \X NameChoices(AttachBase)}
    \cup
    {[MdlFull EXCEPT !.h.hitbox_count = count[1],
                     !.hit_box_sets =
                         (HitBoxSetBase :>
                             [name_index |-> names[1], hitbox_count |-> count[2],
                              hitbox_index |-> BoundingBoxBase - HitBoxSetBase]),
                     !.bounding_boxes =
                         (BoundingBoxBase :> [name_index |-> names[2]])] :
        count \in {0, 1} \X {0, 1, 2},
        names \in NameChoices(HitBoxSetBase) \X
                  {StrA - BoundingBoxBase, MdlFullLen, StrBad - BoundingBoxBase}}
    \cup
    {[MdlFull EXCEPT !.h.body_part_count = count[1],
                     !.body_parts =
                         (BodyPartBase :>
                             [name_index |-> 0, model_count |-> count[2],
                              model_index |-> ModelBase - BodyPartBase]),
                     !.models =
                         [at \in {ModelBase, ModelBase + ModelHeaderSize - FixedString0Size}
                             |-> [name |-> name, mesh_count |-> count[3],
                                  mesh_index |-> MeshBase - at,
                                  vertex_index |-> vertex_index]]] :
        count \in {0, 1, 2} \X {0, 1, 2} \X {0, 1, 2},
        name \in NameBufs,
        vertex_index \in {0, VertexSize + 1, -VertexSize - 1}}

\* files with two records in the bone table or in the pose parameter table,
\* laid out back to back, every other table empty.  The bytes one byte after
\* the first pose parameter decode to a record too: its name_index is the
\* upper three bytes of the first record's name_index, under a zero byte of
\* `flags`
MdlStrideFiles ==
    {[MdlEmpty EXCEPT
         !.h.bone_count = count, !.h.bone_offset = BoneBase,
         !.bones = [at \in {BoneBase, BoneBase + BoneHeaderSize} |->
                       [proc_type |-> 0, proc_index |-> 0,
                        sz_name_index |-> name - at,
                        surface_prop_idx |-> StrA - at, parent |-> -1]]] :
        count \in {1, 2}, name \in {StrA, StrBackslash}}
    \cup
    {[MdlEmpty EXCEPT
         !.h.local_pose_param_count = count, !.h.local_pose_param_index = PoseBase,
         !.pose_parameters =
             (PoseBase :> [name_index |-> StrA - PoseBase])
             @@ (PoseBase + 1 :> [name_index |-> (StrA - PoseBase) \div U8Modulus])
             @@ (PoseBase + PoseParameterDescriptionHeaderSize :>
                    [name_index |->
                        name - (PoseBase + PoseParameterDescriptionHeaderSize)])] :
        count \in {1, 2}, name \in {StrA, StrBackslash}}

\* prefixes of the file with one record in every table
MdlTruncatedFiles ==
    {[MdlFull EXCEPT !.len = len] :
        len \in {0, StudioHeaderSize - 1, StudioHeaderSize, DirBase - 1, DirBase,
                 SkinBase - 1, BoneBase - 1, ProcBase - 1, ProcBase,
                 AnimDescBase - 1, AnimBase - 1, AnimBase + 3, PoseBase - 1,
                 AttachBase - 1, HitBoxSetBase - 1, BoundingBoxBase - 1,
                 BodyPartBase - 1, BodyPartBase + BodyPartHeaderSize - 1,
                 ModelBase + ModelHeaderSize - 1, MeshBase + MeshHeaderSize - 1,
                 StrBase - 1, StrBase, StrBase + 1, MdlFullLen - 1, MdlFullLen}}

MdlInputs ==
    MdlHeadFiles \cup MdlTextureTableFiles \cup MdlTextureNameFiles
    \cup MdlBoneFiles \cup MdlAnimationFiles \cup MdlChainFiles \cup MdlTailFiles
    \cup MdlStrideFiles \cup MdlTruncatedFiles

\* Mdl::read is called on the file
MdlReadCall ==
    /\ mdl_data # NotRun
    /\ mdl_result = NotRun
    /\ mdl_result' = MdlReadSub(mdl_data, overflow_checks)
    /\ UNCHANGED <<mdl_data, overflow_checks, vvd_vars, strip_vars, mesh_vars,
                   model_vars, values_vars, track_vars, read_vars, quat_vars, vtx_vars,
                   frames_vars, bone_vars>>

InitMdl ==
    /\ mdl_data \in MdlInputs /\ overflow_checks \in BOOLEAN /\ mdl_result = NotRun
    /\ VvdIdle /\ StripIdle /\ MeshIdle /\ ModelIdle /\ ValuesIdle /\ TrackIdle /\ VtxIdle
    /\ BonesIdle
    /\ FramesIdle
    /\ QuatIdle
    /\ ReadIdle
NextMdl == MdlReadCall
SpecMdl == InitMdl /\ [][NextMdl]_vars

(***************************************************************************)
(* Properties of Mdl::read.                                                *)
(***************************************************************************)
MdlDone == mdl_data # NotRun /\ mdl_result # NotRun

\* C1: whatever bytes Mdl::read is given, it returns Ok or Err with one of
\* the ModelError variants; it never panics.
C1_NoPanic ==
    MdlDone => mdl_result.res.tag \in {"Ok"} \cup ErrorTags

\* C2: Mdl::read never returns Ok when an offset it dereferenced (of a table
\* record, a nested record or a string) lies outside the input bytes.
C2_OkOnlyInBounds ==
    MdlDone /\ IsOk(mdl_result.res) =>
        \A offset \in mdl_result.derefs : offset <= mdl_data.len

\* the file with other bytes 0..8
WithHead(d, head) == [d EXCEPT !.bytes = HeadBytes(head) @@ d.bytes]
\* an outcome without header.id and header.version
MaskHead(res) == IF IsOk(res) THEN Ok([res.val EXCEPT !.header = <<>>]) ELSE res

\* C3 (as stated): two inputs that differ only in bytes 0..8 (id, version)
\* have the same outcome, up to header.id and header.version.
C3_HeadIgnored ==
    MdlDone =>
        \A head \in Heads :
            MaskHead(MdlRead(WithHead(mdl_data, head), overflow_checks))
                = MaskHead(mdl_result.res)

\* C3 (amended): two inputs that differ only in bytes 0..8 have the same
\* outcome, up to header.id and header.version, provided no offset that the
\* read of one of them follows points into bytes 0..8.
C3_HeadIgnoredUnlessRead ==
    MdlDone /\ (\A offset \in mdl_result.derefs : offset >= 8) =>
        \A head \in Heads :
            MaskHead(MdlRead(WithHead(mdl_data, head), overflow_checks))
                = MaskHead(mdl_result.res)

\* a file with another id and version was read to the end, following
\* offsets, none of them into bytes 0..8
C3_Witness ==
    /\ MdlDone
    /\ IsOk(mdl_result.res)
    /\ mdl_result.res.val.header.id # <<73, 68, 83, 84>>
    /\ mdl_result.res.val.header.version # <<48, 0, 0, 0>>
    /\ mdl_result.derefs # {}
    /\ \A offset \in mdl_result.derefs : offset >= 8

\* the animation descriptions that Mdl::read parsed: their header was read
ParsedDescriptions ==
    {at \in DOMAIN mdl_data.local_animations :
        /\ mdl_data.h.local_animation_count # 0
        /\ at \in mdl_result.derefs
        /\ at + AnimationDescriptionHeaderSize <= mdl_data.len}

\* C22: parsing an animation description whose animation_block is not 0
\* returns an OutOfBounds error (no panic, no animation without frames).
C22_AnimationBlockReported ==
    MdlDone =>
        \A at \in ParsedDescriptions :
            mdl_data.local_animations[at].animation_block # 0 =>
                mdl_result.res.tag = "OutOfBounds"

\* the chain of animation records from the record at `at`: the offsets of
\* the records whose header lies in the input, each next_offset after the one
\* before, up to the first record with next_offset = 0 (ended) or to where the
\* chain leaves the input
RECURSIVE RecordChain(_, _, _)
RecordChain(d, at, acc) ==
    IF at + AnimationHeaderSize > d.len THEN [offsets |-> acc, ended |-> FALSE]
    ELSE IF U16At(d, at + 2) = 0 THEN [offsets |-> Append(acc, at), ended |-> TRUE]
    ELSE RecordChain(d, at + U16At(d, at + 2), Append(acc, at))

\* the chain of the description at `at`
ChainOf(at) ==
    RecordChain(mdl_data, at + AsUsize(mdl_data.local_animations[at].animation_index),
                <<>>)

\* the first description of the table was parsed and is read from the file
FirstDescriptionWalked ==
    /\ MdlDone
    /\ AsUsize(mdl_data.h.local_animation_offset) \in ParsedDescriptions
    /\ mdl_data.local_animations[AsUsize(mdl_data.h.local_animation_offset)]
           .animation_block = 0

\* C23: the walk over the chain of animation records ends on every input: a
\* chain that reaches a record with next_offset = 0 is walked up to that
\* record, one Animation per record in the order of the offsets, and a
\* chain that leaves the input first ends with OutOfBounds or Eof.
C23_ChainWalk ==
    FirstDescriptionWalked =>
        LET chain == ChainOf(AsUsize(mdl_data.h.local_animation_offset))
        IN /\ IsOk(mdl_result.res) =>
                  /\ chain.ended
                  /\ Len(mdl_result.res.val.local_animations[1].animations)
                         = Len(chain.offsets)
                  /\ \A k \in DOMAIN chain.offsets :
                         mdl_result.res.val.local_animations[1].animations[k].bone
                             = ByteAt(mdl_data, chain.offsets[k])
           /\ ~chain.ended => mdl_result.res.tag \in {"OutOfBounds", "Eof"}

\* the part of C23 that holds in every build: what the walk returns when
\* it returns
ChainWalkUnlessPanic ==
    FirstDescriptionWalked /\ mdl_result.res.tag # "Panic" =>
        LET chain == ChainOf(AsUsize(mdl_data.h.local_animation_offset))
        IN /\ IsOk(mdl_result.res) =>
                  /\ chain.ended
                  /\ Len(mdl_result.res.val.local_animations[1].animations)
                         = Len(chain.offsets)
                  /\ \A k \in DOMAIN chain.offsets :
                         mdl_result.res.val.local_animations[1].animations[k].bone
                             = ByteAt(mdl_data, chain.offsets[k])
           /\ ~chain.ended => mdl_result.res.tag \in {"OutOfBounds", "Eof"}

\* the bones that Mdl::read parsed: their header was read
ParsedBones ==
    {at \in DOMAIN mdl_data.bones :
        /\ mdl_data.h.bone_count # 0
        /\ at \in mdl_result.derefs
        /\ at + BoneHeaderSize <= mdl_data.len}

\* the name and the surface property of the bone at `at` resolve
BoneStringsResolve(at) ==
    /\ IsOk(ReadSingleString(mdl_data, at, mdl_data.bones[at].sz_name_index).res)
    /\ IsOk(ReadSingleString(mdl_data, at, mdl_data.bones[at].surface_prop_idx).res)

\* C24: a bone whose proc_type is none of 1 .. 5 is read with
\* procedural_rules = None whatever its proc_index, when its name and its
\* surface property resolve.
C24_UnknownProcTypeTolerated ==
    MdlDone =>
        \A at \in ParsedBones :
            mdl_data.bones[at].proc_type \notin ProceduralBoneTypes
            /\ BoneStringsResolve(at) =>
                /\ IsOk(BoneRead(mdl_data, at).res)
                /\ BoneRead(mdl_data, at).res.val.procedural_rules = 0
                /\ mdl_result.res.tag = "OutOfBounds" =>
                       mdl_result.res.data # "bone surface property"

\* the part of C24 that holds: the same with a proc_index that is 0 or
\* lies in the data of the bone
UnknownProcTypeInBounds ==
    MdlDone =>
        \A at \in ParsedBones :
            mdl_data.bones[at].proc_type \notin ProceduralBoneTypes
            /\ BoneStringsResolve(at)
            /\ AsUsize(mdl_data.bones[at].proc_index) <= mdl_data.len - at =>
                /\ IsOk(BoneRead(mdl_data, at).res)
                /\ BoneRead(mdl_data, at).res.val.procedural_rules = 0

\* the tables named in the header of the file: where each starts, how many
\* records it holds, and the size of the header struct of its records
HeaderTables ==
    LET h == mdl_data.h
    IN {[offset |-> h.bone_offset, count |-> h.bone_count, size |-> BoneHeaderSize],
        [offset |-> h.texture_offset, count |-> h.texture_count,
         size |-> MeshTextureSize],
        [offset |-> h.body_part_offset, count |-> h.body_part_count,
         size |-> BodyPartHeaderSize],
        [offset |-> h.hitbox_offset, count |-> h.hitbox_count,
         size |-> HitBoxSetHeaderSize],
        [offset |-> h.local_animation_offset, count |-> h.local_animation_count,
         size |-> AnimationDescriptionHeaderSize],
        [offset |-> h.anim_blocks_index, count |-> h.anim_blocks_count,
         size |-> AnimationBlockSize],
        [offset |-> h.local_pose_param_index, count |-> h.local_pose_param_count,
         size |-> PoseParameterDescriptionHeaderSize],
        [offset |-> h.attachment_offset, count |-> h.attachment_count,
         size |-> StudioAttachmentHeaderSize]}

\* the model tables of the body parts that Mdl::read parsed
ModelTables ==
    {[offset |-> at + mdl_data.body_parts[at].model_index,
      count |-> mdl_data.body_parts[at].model_count,
      size |-> ModelHeaderSize] :
        at \in {a \in DOMAIN mdl_data.body_parts :
                   mdl_data.h.body_part_count # 0 /\ a \in mdl_result.derefs}}

\* record i of the table was read at offset + i * size, for every i < count
ReadAtRecordSize(table) ==
    \A i \in 0 .. table.count - 1 : table.offset + i * table.size \in mdl_result.derefs

\* C26: when Mdl::read succeeds, record i of every table of the header and
\* of the models of every body part was read at
\* table_offset + i * size_of(header struct of the record), for i < count
C26_RecordSizeStride ==
    MdlDone /\ IsOk(mdl_result.res) =>
        \A table \in HeaderTables \cup ModelTables : ReadAtRecordSize(table)

\* the part of C26 that holds: the textures and the body parts are read at
\* table_offset + i * size_of(header struct)
SizedTables ==
    {table \in HeaderTables : table.size \in {MeshTextureSize, BodyPartHeaderSize}}
RecordSizeStrideOfSizedTables ==
    MdlDone /\ IsOk(mdl_result.res) => \A table \in SizedTables : ReadAtRecordSize(table)

(***************************************************************************)
(* lib.rs: the Mesh handle of the assembled Model.                         *)
(*                                                                         *)
(* A mesh of the model is the values the three parsers returned for it:    *)
(* the number of vertices of the Vvd, the vertex offsets of the mdl model  *)
(* and mesh, and the strip groups of the vtx mesh (index array, the        *)
(* original_mesh_vertex_id of its vertices, strip headers).                *)
(***************************************************************************)
\* entries of a strip group's index array
MaxGroupIndices == 3
\* vertices of a strip group
MaxGroupVerts == 2

\* usize + usize: a panic with overflow checks, wrapping without
UsizeAdd(oc, a, b) ==
    IF a + b >= UsizeModulus
    THEN IF oc THEN Panic("attempt to add with overflow") ELSE Ok((a + b) % UsizeModulus)
    ELSE Ok(a + b)

\* the indices of Strip::indices(), triangle after triangle
RECURSIVE Flatten(_)
Flatten(seqs) == IF seqs = <<>> THEN <<>> ELSE Head(seqs) \o Flatten(Tail(seqs))

\* the closure chain of vertex_strip_indices without the MDL-supplied base
StripVertexIndexMutNoBase(oc, group, mdl_offset, index) ==
    IF index >= Len(group.indices) THEN Panic("index out of bounds")
    ELSE LET vertex == group.indices[index + 1]
         IN IF vertex >= Len(group.vertices) THEN Panic("index out of bounds")
            ELSE Ok(group.vertices[vertex + 1])

\* the closure chain of vertex_strip_indices for one index of a strip:
\* group_indices[index], vertices[..].original_mesh_vertex_id, + mdl_offset
StripVertexIndex(oc, group, mdl_offset, index) ==
    IF index >= Len(group.indices) THEN Panic("index out of bounds")
    ELSE LET vertex == group.indices[index + 1]
         IN IF vertex >= Len(group.vertices) THEN Panic("index out of bounds")
            ELSE UsizeAdd(oc, group.vertices[vertex + 1], mdl_offset)

\* one strip iterator of vertex_strip_indices, consumed to the end
RECURSIVE StripVertexIndices(_, _, _, _, _)
StripVertexIndices(oc, group, mdl_offset, flat, acc) ==
    IF flat = <<>> THEN Ok(acc)
    ELSE LET r == StripVertexIndex(oc, group, mdl_offset, Head(flat))
         IN IF ~IsOk(r) THEN r
            ELSE StripVertexIndices(oc, group, mdl_offset, Tail(flat), Append(acc, r.val))

\* the strips of the strip groups, in the order flat_map visits them
RECURSIVE GroupStrips(_)
GroupStrips(groups) ==
    IF groups = <<>> THEN <<>>
    ELSE [i \in DOMAIN Head(groups).strips |->
             [group |-> Head(groups), strip |-> StripRead(Head(groups).strips[i])]]
         \o GroupStrips(Tail(groups))

RECURSIVE AllStripVertexIndices(_, _, _, _)
AllStripVertexIndices(oc, mdl_offset, strips, acc) ==
    IF strips = <<>> THEN Ok(acc)
    ELSE LET r == StripVertexIndices(oc, Head(strips).group, mdl_offset,
                                     Flatten(StripIndices(Head(strips).strip)), <<>>)
         IN IF ~IsOk(r) THEN r
            ELSE AllStripVertexIndices(oc, mdl_offset, Tail(strips), Append(acc, r.val))

\* Mesh::vertex_strip_indices(), every strip iterator consumed: the indices
\* of each strip, or the panic that ends the iteration.  model_vertex_offset
\* is `model.vertex_offset as usize` (Model::meshes).
vertex_strip_indices(m, oc) ==
    LET mdl_offset == UsizeAdd(oc, AsUsize(m.mdl_vertex_offset),
                               AsUsize(m.model_vertex_offset))
    IN IF ~IsOk(mdl_offset) THEN mdl_offset
       ELSE AllStripVertexIndices(oc, mdl_offset.val, GroupStrips(m.strip_groups), <<>>)

\* Mesh::vertices() (and Mesh::tangents(), over a slice of the same length),
\* consumed: `self.vertices[index]` for every index of every strip
MeshVertices(m, indices) ==
    IF ~IsOk(indices) THEN indices
    ELSE LET flat == Flatten(indices.val)
         IN IF \E i \in DOMAIN flat : flat[i] >= m.vertex_count
            THEN Panic("index out of bounds")
            ELSE Ok(flat)

\* a strip header over the index array of its group
GroupStripHeader(flags, index_count) ==
    [index_count |-> index_count, index_offset |-> 0, vertex_count |-> 0,
     vertex_offset |-> 0, flags |-> flags]

MeshOf(vertex_count, offsets, indices, vertices, flags, index_count) ==
    [vertex_count |-> vertex_count,
     mdl_vertex_offset |-> offsets[1], model_vertex_offset |-> offsets[2],
     strip_groups |-> <<[indices |-> indices, vertices |-> vertices,
                         strips |-> <<GroupStripHeader(flags, index_count)>>]>>]

\* meshes that differ in their index and vertex arrays, and meshes that
\* differ in the length of their strip and in their offsets
MeshInputs ==
    {MeshOf(vertex_count, <<0, 0>>, indices, vertices, IS_TRI_LIST, MaxGroupIndices) :
        vertex_count \in 0 .. MaxVerts,
        indices \in [1 .. MaxGroupIndices -> 0 .. MaxGroupVerts - 1],
        vertices \in [1 .. MaxGroupVerts -> 0 .. MaxVerts]}
    \cup
    {MeshOf(vertex_count, offsets, [i \in 1 .. MaxGroupIndices |-> 0],
            [i \in 1 .. MaxGroupVerts |-> i - 1], flags, index_count) :
        vertex_count \in 0 .. MaxVerts,
        offsets \in (-1 .. 1) \X (-1 .. 1),
        flags \in {IS_TRI_LIST, IS_TRI_STRIP},
        index_count \in 0 .. MaxGroupIndices + 1}

\* the strip iterators of vertex_strip_indices() are consumed
MeshIndicesCall ==
    /\ mesh # NotRun
    /\ mesh_indices = NotRun
    /\ mesh_indices' = vertex_strip_indices(mesh, overflow_checks)
    /\ UNCHANGED <<mesh, mesh_vertices, overflow_checks, mdl_data, mdl_result,
                   vvd_vars, strip_vars,
                   model_vars, values_vars, track_vars, read_vars, quat_vars, vtx_vars,
                   frames_vars, bone_vars>>

\* Mesh::vertices() is consumed
MeshVerticesCall ==
    /\ mesh_indices # NotRun
    /\ mesh_vertices = NotRun
    /\ mesh_vertices' = MeshVertices(mesh, mesh_indices)
    /\ UNCHANGED <<mesh, mesh_indices, overflow_checks, mdl_data, mdl_result,
                   vvd_vars, strip_vars,
                   model_vars, values_vars, track_vars, read_vars, quat_vars, vtx_vars,
                   frames_vars, bone_vars>>

InitMesh ==
    /\ mesh \in MeshInputs /\ overflow_checks \in BOOLEAN
    /\ mesh_indices = NotRun /\ mesh_vertices = NotRun
    /\ mdl_data = NotRun /\ mdl_result = NotRun
    /\ VvdIdle /\ StripIdle /\ ModelIdle /\ ValuesIdle /\ TrackIdle /\ ReadIdle /\ VtxIdle
    /\ BonesIdle
    /\ FramesIdle
    /\ QuatIdle
NextMesh == MeshIndicesCall \/ MeshVerticesCall
SpecMesh == InitMesh /\ [][NextMesh]_vars

\* C10: every index that vertex_strip_indices() yields is below
\* vertices().len(), so that neither vertex_strip_indices() nor
\* Mesh::vertices() indexes out of range.  Stated for the meshes whose
\* vertex offsets are not negative, where no addition overflows.
C10_IndicesInRange ==
    mesh # NotRun /\ mesh.mdl_vertex_offset >= 0 /\ mesh.model_vertex_offset >= 0 =>
    /\ mesh_indices # NotRun =>
           /\ IsOk(mesh_indices)
           /\ \A s \in DOMAIN mesh_indices.val :
                  \A i \in DOMAIN mesh_indices.val[s] :
                      mesh_indices.val[s][i] < mesh.vertex_count
    /\ mesh_vertices # NotRun => IsOk(mesh_vertices)

\* the strip positions Strip::indices() yields for strip s of the mesh, and
\* the strip group of that strip
MeshStrip(s) == GroupStrips(mesh.strip_groups)[s]
StripPositions(s) == Flatten(StripIndices(MeshStrip(s).strip))
\* group.vertices[group.indices[p]].original_mesh_vertex_id
OriginalMeshVertexId(group, p) == group.vertices[group.indices[p + 1] + 1]
MeshYielded == mesh # NotRun /\ mesh_indices # NotRun /\ IsOk(mesh_indices)

MaxParts == 2

Min(a, b) == IF a < b THEN a ELSE b

\* Iterator::zip
Zip(a, b) == [i \in 1 .. Min(Len(a), Len(b)) |-> <<a[i], b[i]>>]

\* slice::last, taken as an iterator like slice::first
FirstMutLast(s) == IF s = <<>> THEN <<>> ELSE <<s[Len(s)]>>

\* slice::first as an iterator of no or one element
First(s) == IF s = <<>> THEN <<>> ELSE <<s[1]>>

\* mdl_meshes of Model::meshes
MdlMeshes(mdl) ==
    LET models == Flatten([p \in DOMAIN mdl.body_parts |-> mdl.body_parts[p].models])
    IN Flatten([m \in DOMAIN models |->
                   [k \in DOMAIN models[m].meshes |->
                       [mesh |-> models[m].meshes[k],
                        model_name |-> models[m].name,
                        model_vertex_offset |-> AsUsize(models[m].vertex_offset)]]])

\* vtx_meshes of Model::meshes
VtxMeshes(vtx) ==
    LET models == Flatten([p \in DOMAIN vtx.body_parts |-> vtx.body_parts[p].models])
        lods == Flatten([m \in DOMAIN models |-> First(models[m].lods)])
    IN Flatten([l \in DOMAIN lods |-> lods[l].meshes])

\* Model::meshes, collected
Meshes(m) ==
    LET pairs == Zip(MdlMeshes(m.mdl), VtxMeshes(m.vtx))
    IN [i \in DOMAIN pairs |->
           [model_vertex_offset |-> pairs[i][1].model_vertex_offset,
            model_name |-> pairs[i][1].model_name,
            mdl |-> pairs[i][1].mesh,
            vtx |-> pairs[i][2]]]

\* the sequences over S of at most n elements
SeqsUpTo(S, n) == UNION {[1 .. k -> S] : k \in 0 .. n}

\* the body parts of an Mdl: part p holds one model per entry of shape[p],
\* with that many meshes
MdlBodyParts(shape) ==
    [p \in DOMAIN shape |->
        [name_index |-> 0,
         models |-> [m \in DOMAIN shape[p] |->
            [name |-> <<p, m>>, vertex_offset |-> 10 * p + m,
             meshes |-> [k \in 1 .. shape[p][m] |->
                [material |-> 0, vertex_offset |-> 0, at |-> <<p, m, k>>]]]]]]

\* the body parts of a Vtx: part p holds one model per entry of shape[p],
\* with one LOD per entry of shape[p][m] and that many meshes in it
VtxBodyParts(shape) ==
    [p \in DOMAIN shape |->
        [models |-> [m \in DOMAIN shape[p] |->
            [lods |-> [l \in DOMAIN shape[p][m] |->
                [switch_point |-> 0,
                 meshes |-> [k \in 1 .. shape[p][m][l] |->
                    [strip_groups |-> <<>>, flags |-> 0, at |-> <<p, m, l, k>>]]]]]]]]

\* body parts by the mesh counts of their models
MdlPartShapes == {<<>>, <<1>>, <<0, 1>>, <<2, 1>>}
\* body parts by the first-LOD-first mesh counts of their models
VtxPartShapes == {<<>>, << <<1>> >>, << <<>>, <<1, 2>> >>, << <<0, 2>>, <<3, 1>> >>}

Vector0 == <<0, 0, 0>>

\* a Model of empty files
ZeroLibModel ==
    [mdl |-> [header |-> [skin_reference_count |-> 0, skin_family_count |-> 0,
                          bounding_box |-> <<Vector0, Vector0>>],
              body_parts |-> <<>>, skin_table |-> <<>>, textures |-> <<>>,
              bones |-> <<>>],
     vtx |-> [body_parts |-> <<>>],
     vvd |-> [vertices |-> <<>>]]

\* a Model by the body parts of its Mdl and of its Vtx
JoinModel(ms, vs) ==
    [ZeroLibModel EXCEPT !.mdl.body_parts = MdlBodyParts(ms),
                         !.vtx.body_parts = VtxBodyParts(vs)]

\* skin references and skin families of an Mdl
MaxSkinRefs == 2
MaxSkinFamilies == 2

\* slice::chunks
Chunks(s, n) ==
    [c \in 1 .. (Len(s) + n - 1) \div n |->
        SubSeq(s, (c - 1) * n + 1, Min(c * n, Len(s)))]

\* Model::skin_tables, collected
skin_tables(m) ==
    IF m.mdl.header.skin_reference_count > 0
    THEN LET chunks == Chunks(m.mdl.skin_table, AsUsize(m.mdl.header.skin_reference_count))
         IN [c \in DOMAIN chunks |-> [table |-> chunks[c], textures |-> m.mdl.textures]]
    ELSE <<[table |-> <<>>, textures |-> <<>>]>>

\* SkinTable::texture_index with the index clamped to the table
texture_indexMutClamp(t, index) ==
    IF t.table = <<>> THEN <<"None">>
    ELSE <<"Some", t.table[Min(AsUsize(index), Len(t.table) - 1) + 1]>>

\* SkinTable::texture_index
texture_index(t, index) ==
    IF AsUsize(index) < Len(t.table)
    THEN <<"Some", t.table[AsUsize(index) + 1]>>
    ELSE <<"None">>

\* the material indexes looked up in each table
MaterialArgs == -1 .. MaxSkinRefs + 1

\* a Model by its skin table: skin_reference_count * skin_family_count
\* entries (a negative count fails Mdl::read), ascending or descending
SkinModel(r, f, up) ==
    [ZeroLibModel EXCEPT !.mdl.header.skin_reference_count = r,
                         !.mdl.header.skin_family_count = f,
                         !.mdl.skin_table =
                             [i \in 1 .. r * f |-> IF up THEN i - 1 ELSE r * f - i]]

\* bones of an Mdl
MaxBones == 2

\* Model::bounding_box
bounding_box(m) == <<m.mdl.header.bounding_box[1], m.mdl.header.bounding_box[2]>>

\* Vector::transformed with a Transform3x4 of three rows of four, whose
\* rotation part is a quarter-turn rotation about the x or the z axis:
\* Matrix4::from(Transform3x4) and Matrix4::transform_vector.  Matrices are
\* held by columns, as cgmath holds them; angles are counted in quarter turns.
transformed(v, transform) ==
    LET sin(q) == CASE q % 4 = 0 -> 0 [] q % 4 = 1 -> 1 [] q % 4 = 2 -> 0 [] q % 4 = 3 -> -1
        cos(q) == sin(q + 1)
        from_angle_x(q) == << <<1, 0, 0>>, <<0, cos(q), sin(q)>>, <<0, -sin(q), cos(q)>> >>
        from_angle_y(q) == << <<cos(q), 0, -sin(q)>>, <<0, 1, 0>>, <<sin(q), 0, cos(q)>> >>
        from_angle_z(q) == << <<cos(q), sin(q), 0>>, <<-sin(q), cos(q), 0>>, <<0, 0, 1>> >>
        apply(a, u) == <<a[1][1] * u[1] + a[2][1] * u[2] + a[3][1] * u[3],
                         a[1][2] * u[1] + a[2][2] * u[2] + a[3][2] * u[3],
                         a[1][3] * u[1] + a[2][3] * u[2] + a[3][3] * u[3]>>
        mul(a, b) == <<apply(a, b[1]), apply(a, b[2]), apply(a, b[3])>>
        \* Transform3x4::translate and Transform3x4::rotation_matrix
        translate == <<transform[1][4], transform[2][4], transform[3][4]>>
        mat == <<SubSeq(transform[1], 1, 3), SubSeq(transform[2], 1, 3),
                 SubSeq(transform[3], 1, 3)>>
        euler == CHOOSE e \in [x : -1 .. 2, y : {0}, z : -1 .. 2] :
                     /\ e.x = 0 \/ e.z = 0
                     /\ mat = mul(from_angle_x(e.x), from_angle_z(e.z))
        rotate == mul(mul(from_angle_x(-euler.z), from_angle_y(euler.y)),
                      from_angle_z(euler.x))
        \* rotate * Matrix4::from_translation(translate), applied to (v, w) with
        \* the w = 0 of transform_vector
        w == 0
    IN apply(rotate, <<v[1] + w * translate[1], v[2] + w * translate[2],
                       v[3] + w * translate[3]>>)

\* BoneWeights::weights taking up to three entries
weightsMutThree(bone_weights) ==
    [i \in 1 .. Min(bone_weights.bone_count, 3) |->
        [weight |-> bone_weights.weight[i], bone_id |-> bone_weights.bone[i]]]

\* BoneWeights::weights
weights(bone_weights) ==
    [i \in 1 .. Min(bone_weights.bone_count, 2) |->
        [weight |-> bone_weights.weight[i], bone_id |-> bone_weights.bone[i]]]

\* the loop of Model::vertex_to_world_space from entry i (from 1) on
RECURSIVE WorldSpaceFrom(_, _, _, _)
WorldSpaceFrom(bones, ws, i, pos) ==
    IF i > Len(ws) THEN pos
    ELSE IF ws[i].bone_id < Len(bones)
    THEN WorldSpaceFrom(bones, ws, i + 1,
                        transformed(pos, bones[ws[i].bone_id + 1].pose_to_bone))
    ELSE WorldSpaceFrom(bones, ws, i + 1, pos)

\* Model::vertex_to_world_space
vertex_to_world_space(m, vertex) ==
    WorldSpaceFrom(m.mdl.bones, weights(vertex.bone_weights), 1, vertex.position)

\* vertex positions and box corners
Positions == {<<0, 0, 0>>, <<1, 2, 3>>, <<-1, 0, 2>>}

VertexOf(position, bone, bone_count, weight) ==
    [position |-> position,
     bone_weights |-> [weight |-> weight, bone |-> bone, bone_count |-> bone_count]]

\* a Model by the box of its header and the positions of its vertices
BoxModel(box, ps) ==
    [ZeroLibModel EXCEPT !.mdl.header.bounding_box = box,
                         !.vvd.vertices =
                             [i \in DOMAIN ps |->
                                 VertexOf(ps[i], <<0, 0, 0>>, 0, <<0, 0, 0>>)]]

\* pose_to_bone of a bone: a translation, a quarter turn about z, a quarter
\* turn about x with a translation
Poses == {<< <<1, 0, 0, 1>>, <<0, 1, 0, 2>>, <<0, 0, 1, 3>> >>,
          << <<0, -1, 0, 0>>, <<1, 0, 0, 0>>, <<0, 0, 1, 0>> >>,
          << <<1, 0, 0, 5>>, <<0, 0, -1, 0>>, <<0, 1, 0, 0>> >>}

\* a Model of one vertex by its bones and the bone weights of the vertex
WorldModel(poses, bone, bone_count, weight) ==
    [ZeroLibModel EXCEPT !.mdl.bones = [b \in DOMAIN poses |-> [pose_to_bone |-> poses[b]]],
                         !.vvd.vertices = <<VertexOf(<<1, 2, 3>>, bone, bone_count, weight)>>]

\* Model::meshes() is consumed
MeshesCall ==
    /\ lib_model # NotRun
    /\ model_out = NotRun
    /\ model_out' = [call |-> "meshes", ret |-> Ok(Meshes(lib_model))]
    /\ UNCHANGED <<lib_model, overflow_checks, vvd_vars, strip_vars, mdl_data,
                   mdl_result, mesh_vars, values_vars, track_vars, read_vars, quat_vars,
                   vtx_vars, frames_vars, bone_vars>>

\* Model::skin_tables() is consumed and texture_index is called on each table
SkinTablesCall ==
    /\ lib_model # NotRun
    /\ model_out = NotRun
    /\ model_out' =
           [call |-> "skin_tables",
            ret |-> Ok(LET tables == skin_tables(lib_model)
                       IN [t \in DOMAIN tables |->
                              [table |-> tables[t],
                               texture_index |->
                                   [index \in MaterialArgs |->
                                       texture_index(tables[t], index)]]])]
    /\ UNCHANGED <<lib_model, overflow_checks, vvd_vars, strip_vars, mdl_data,
                   mdl_result, mesh_vars, values_vars, track_vars, read_vars, quat_vars,
                   vtx_vars, frames_vars, bone_vars>>

\* Model::bounding_box() is called
BoundingBoxCall ==
    /\ lib_model # NotRun
    /\ model_out = NotRun
    /\ model_out' = [call |-> "bounding_box", ret |-> Ok(bounding_box(lib_model))]
    /\ UNCHANGED <<lib_model, overflow_checks, vvd_vars, strip_vars, mdl_data,
                   mdl_result, mesh_vars, values_vars, track_vars, read_vars, quat_vars,
                   vtx_vars, frames_vars, bone_vars>>

\* Model::vertex_to_world_space is called with a vertex of the Model
VertexToWorldSpaceCall ==
    /\ lib_model # NotRun
    /\ model_out = NotRun
    /\ \E v \in DOMAIN lib_model.vvd.vertices :
           model_out' = [call |-> "vertex_to_world_space", vertex |-> v,
                         ret |-> Ok(vertex_to_world_space(lib_model,
                                                          lib_model.vvd.vertices[v]))]
    /\ UNCHANGED <<lib_model, overflow_checks, vvd_vars, strip_vars, mdl_data,
                   mdl_result, mesh_vars, values_vars, track_vars, read_vars, quat_vars,
                   vtx_vars, frames_vars, bone_vars>>

\* Models that differ in the body parts of their Mdl and of their Vtx, in
\* their skin table, in their box and their vertices, or in their bones and
\* the bone weights of their one vertex (of two entries and a third naming
\* bone 0; the bone id MaxBones names no bone)
InitModel ==
    /\ \/ \E ms \in SeqsUpTo(MdlPartShapes, MaxParts),
             vs \in SeqsUpTo(VtxPartShapes, MaxParts) :
              lib_model = JoinModel(ms, vs)
       \/ \E r \in -1 .. MaxSkinRefs, f \in -1 .. MaxSkinFamilies, up \in BOOLEAN :
              r * f >= 0 /\ lib_model = SkinModel(r, f, up)
       \/ \E box \in Positions \X Positions, ps \in SeqsUpTo(Positions, MaxVerts) :
              lib_model = BoxModel(box, ps)
       \/ \E poses \in SeqsUpTo(Poses, MaxBones),
             bone \in [1 .. 2 -> 0 .. MaxBones],
             bone_count \in {0, 1, 2, 3, U8Modulus - 1},
             weight \in {<<1, 0, 0>>, <<0, 1, 0>>} :
              lib_model = WorldModel(poses, bone \o <<0>>, bone_count, weight)
    /\ model_out = NotRun
    /\ overflow_checks = NotRun
    /\ mdl_data = NotRun /\ mdl_result = NotRun
    /\ VvdIdle /\ StripIdle /\ MeshIdle /\ ValuesIdle /\ TrackIdle /\ ReadIdle /\ QuatIdle
    /\ BonesIdle
    /\ FramesIdle
    /\ VtxIdle
NextModel == MeshesCall \/ SkinTablesCall \/ BoundingBoxCall \/ VertexToWorldSpaceCall
SpecModel == InitModel /\ [][NextModel]_vars

Called(call) == model_out # NotRun /\ model_out.call = call

\* whether place a comes before place b of the same depth, in file order
PlaceBefore(a, b) ==
    \E i \in DOMAIN a : a[i] < b[i] /\ \A j \in 1 .. i - 1 : a[j] = b[j]
\* the position of place x among the places S, in file order
PlaceRank(S, x) == Cardinality({y \in S : PlaceBefore(y, x)}) + 1

\* the places of the meshes of the Mdl: part, model, mesh
MdlMeshPlaces ==
    LET parts == lib_model.mdl.body_parts
    IN UNION {UNION {{<<p, m, k>> : k \in DOMAIN parts[p].models[m].meshes} :
                        m \in DOMAIN parts[p].models} : p \in DOMAIN parts}
\* the places of the first-LOD meshes of the Vtx: part, model, LOD 1, mesh
VtxMeshPlaces ==
    LET parts == lib_model.vtx.body_parts
    IN UNION {UNION {IF parts[p].models[m].lods = <<>> THEN {}
                     ELSE {<<p, m, 1, k>> :
                              k \in DOMAIN parts[p].models[m].lods[1].meshes} :
                        m \in DOMAIN parts[p].models} : p \in DOMAIN parts}

\* C12: Model::meshes() yields min(#MDL meshes, #VTX first-LOD meshes)
\* meshes; the k-th one pairs the k-th mesh of the Mdl in file order (body
\* part, model, mesh), with the name and vertex offset of its model, with
\* the k-th first-LOD mesh of the Vtx in file order (body part, model, mesh).
C12_PositionalJoin ==
    Called("meshes") =>
        LET ret == model_out.ret.val
        IN /\ model_out.ret.tag = "Ok"
           /\ Len(ret) = Min(Cardinality(MdlMeshPlaces), Cardinality(VtxMeshPlaces))
           /\ \A k \in DOMAIN ret :
                  LET at == ret[k].mdl.at
                      model == lib_model.mdl.body_parts[at[1]].models[at[2]]
                  IN /\ at \in MdlMeshPlaces
                     /\ PlaceRank(MdlMeshPlaces, at) = k
                     /\ ret[k].model_name = model.name
                     /\ ret[k].model_vertex_offset = model.vertex_offset
                     /\ ret[k].vtx.at \in VtxMeshPlaces
                     /\ PlaceRank(VtxMeshPlaces, ret[k].vtx.at) = k

\* meshes of different body parts were paired, past a model without LODs
\* and a model with two, and one side was longer than the other
C12_Witness ==
    /\ Called("meshes")
    /\ Len(model_out.ret.val) >= 3
    /\ Cardinality(MdlMeshPlaces) < Cardinality(VtxMeshPlaces)
    /\ \E k \in DOMAIN model_out.ret.val :
           /\ model_out.ret.val[k].mdl.at[1] = 1
           /\ model_out.ret.val[k].vtx.at[1] = 2
    /\ \E p \in DOMAIN lib_model.vtx.body_parts :
           \E m \in DOMAIN lib_model.vtx.body_parts[p].models :
               Len(lib_model.vtx.body_parts[p].models[m].lods) = 0
    /\ \E p \in DOMAIN lib_model.vtx.body_parts :
           \E m \in DOMAIN lib_model.vtx.body_parts[p].models :
               Len(lib_model.vtx.body_parts[p].models[m].lods) = 2

\* C13: when the Mdl and the Vtx flatten to different mesh counts,
\* Model::meshes() reports an OutOfBounds error.
C13_MismatchReported ==
    Called("meshes") /\ Cardinality(MdlMeshPlaces) # Cardinality(VtxMeshPlaces) =>
        model_out.ret.tag = "OutOfBounds"

\* what the claim gives for texture_index(index) on the table of family f
\* (from 1) with R references per family
FamilyEntry(f, R, index) ==
    IF 0 <= index /\ index < R
    THEN <<"Some", lib_model.mdl.skin_table[(f - 1) * R + index + 1]>>
    ELSE <<"None">>

C15_BoxContainsVertices ==
    Called("bounding_box") =>
        \A v \in DOMAIN lib_model.vvd.vertices : \A c \in 1 .. 3 :
            /\ model_out.ret.val[1][c] <= lib_model.vvd.vertices[v].position[c]
            /\ lib_model.vvd.vertices[v].position[c] <= model_out.ret.val[2][c]

\* the vertex vertex_to_world_space was called with
WorldVertex == lib_model.vvd.vertices[model_out.vertex]
\* whether bone entry i (from 1) of that vertex names a bone of the Mdl
HasBone(i) == WorldVertex.bone_weights.bone[i] < Len(lib_model.mdl.bones)
\* pos after the pose_to_bone of bone entry i, as Vector::transformed applies it
PoseApplied(i, pos) ==
    transformed(pos, lib_model.mdl.bones[WorldVertex.bone_weights.bone[i] + 1].pose_to_bone)
PoseAppliedIfBone(i, pos) == IF HasBone(i) THEN PoseApplied(i, pos) ELSE pos

C16_ParentPrecedes ==
    MdlDone /\ IsOk(mdl_result.res) =>
        \A b \in DOMAIN mdl_result.res.val.bones :
            /\ mdl_result.res.val.bones[b].parent >= -1
            /\ mdl_result.res.val.bones[b].parent <= (b - 1) - 1

(***************************************************************************)
(* FrameValues::get on its own: a chain of three nodes at the start of the *)
(* data, whose first header read_animation_values has read.                *)
(***************************************************************************)
\* the greatest total of the first two nodes
MaxTotal == 2
\* the greatest frame index looked up
MaxIndex == 4

\* the bytes of a node at `at`: its header and the low bytes of its first
\* two values and of its last one, which tell the node and the position
NodeBytes(at, node, valid, total) ==
    (at :> valid) @@ (at + 1 :> total)
    @@ [o \in {at + U16Size * (p + 1) : p \in {0, 1, valid - 1} \cap (0 .. valid - 1)} |->
           (16 * node + (o - at) \div U16Size) % U8Modulus]

\* three nodes one after the other; the third holds one value, -1
ValueChain(valid, total) ==
    LET second == U16Size * (valid[1] + 1)
        third == second + U16Size * (valid[2] + 1)
    IN [third |-> third,
        bytes |-> NodeBytes(0, 1, valid[1], total[1])
                  @@ NodeBytes(second, 2, valid[2], total[2])
                  @@ (third :> 1) @@ (third + 1 :> total[3])
                  @@ (third + 2 :> U8Modulus - 1) @@ (third + 3 :> U8Modulus - 1)]

\* the lengths of the data of a chain: the first header alone, the data cut
\* in the second header, after the third header, in and after its value
ChainLens(valid, total) ==
    {ValueHeaderSize, U16Size * (valid[1] + 1) + 1,
     ValueChain(valid, total).third + 2, ValueChain(valid, total).third + 3,
     ValueChain(valid, total).third + 4}

\* FrameValues::get is called on the first node
ValuesGetCall ==
    /\ frame_values # NotRun
    /\ values_out = NotRun
    /\ values_out' = FrameValuesGet(frame_values.d, overflow_checks, 0, frame_values.index)
    /\ UNCHANGED <<frame_values, walk, overflow_checks, vvd_vars, strip_vars, mdl_data,
                   mdl_result, mesh_vars, model_vars, track_vars, read_vars, quat_vars,
                   vtx_vars, frames_vars, bone_vars>>

\* an activation `get(index)` on the FrameValues whose header is at `fbase`,
\* the `nodes`-th header the lookup has read
Call(fbase, index, nodes) ==
    [tag |-> "Call", fbase |-> fbase, index |-> index, nodes |-> nodes]
\* the lookup returned `ret` to read_animation_values
Return(ret, nodes) == [tag |-> "Return", ret |-> ret, nodes |-> nodes]

\* one activation of FrameValues::get runs: it returns, or it reads the next
\* header and calls get on it
GetStep ==
    /\ frame_values # NotRun
    /\ walk.tag = "Call"
    /\ LET d == frame_values.d
           valid == ByteAt(d, walk.fbase)
           total == ByteAt(d, walk.fbase + 1)
           offset_count == (valid + 1) % U8Modulus
           next == walk.fbase + offset_count * U16Size
           next_header == ReadableAt(d.len - walk.fbase, offset_count * U16Size,
                                     ValueHeaderSize,
                                     "vmdl::mdl::raw::animation::ValueHeader")
           here == (IF valid > walk.index THEN walk.index + 1 ELSE valid) * U16Size
           value == ReadableAt(d.len - walk.fbase, here, U16Size, "i16")
       IN walk' =
           IF total <= walk.index
           THEN IF overflow_checks /\ valid + 1 >= U8Modulus
                THEN Return(Panic("attempt to add with overflow"), walk.nodes)
                ELSE IF ~IsOk(next_header) THEN Return(next_header, walk.nodes)
                ELSE IF ByteAt(d, next + 1) = 0 THEN Return(Ok(0), walk.nodes + 1)
                ELSE Call(next, walk.index - total, walk.nodes + 1)
           ELSE IF IsOk(value) THEN Return(Ok(I16At(d, walk.fbase + here)), walk.nodes)
                ELSE Return(value, walk.nodes)
    /\ UNCHANGED <<frame_values, values_out, overflow_checks, vvd_vars, strip_vars,
                   mdl_data, mdl_result, mesh_vars, model_vars, track_vars, read_vars,
                   quat_vars, vtx_vars, frames_vars, bone_vars>>

\* chains, whole or cut, and the frame index looked up in them
InitValues ==
    /\ \E valid \in {0, 1, 2, U8Modulus - 1} \X {0, 1, 2, U8Modulus - 1},
          total \in (0 .. MaxTotal) \X (0 .. MaxTotal) \X {0, U8Modulus - 1} :
           \E len \in ChainLens(valid, total), index \in 0 .. MaxIndex :
               frame_values = [d |-> [len |-> len, bytes |-> ValueChain(valid, total).bytes],
                               index |-> index]
    /\ values_out = NotRun
    /\ walk = Call(0, frame_values.index, 1)
    /\ overflow_checks \in BOOLEAN
    /\ mdl_data = NotRun /\ mdl_result = NotRun
    /\ VvdIdle /\ StripIdle /\ MeshIdle /\ ModelIdle /\ TrackIdle /\ ReadIdle /\ QuatIdle
    /\ BonesIdle
    /\ FramesIdle
    /\ VtxIdle
NextValues == ValuesGetCall \/ GetStep
SpecValues == InitValues /\ [][NextValues]_vars

ValuesDone == frame_values # NotRun /\ values_out # NotRun

\* the lookup run step by step returns what FrameValues::get returns
WalkAgrees ==
    ValuesDone /\ walk.tag = "Return" => walk.ret = values_out.res

\* C21: the lookup ends for every buffer and every frame index: it reads a
\* bounded number of headers (at most the frame index and two more), and
\* what it returns is a value or an error.
C21_WalkEnds ==
    frame_values # NotRun =>
        /\ walk.nodes <= frame_values.index + 2
        /\ walk.tag = "Return" => walk.ret.tag \in {"Ok"} \cup ErrorTags

\* the part of C21 that holds: no chain makes the lookup read more than
\* the frame index and two more headers
WalkBounded ==
    frame_values # NotRun => walk.nodes <= frame_values.index + 2

\* the rule of the claim on the node at `at` for frame index k: the value
\* found and the end of the last bytes read.  A node the walk moved on to
\* ends the walk with 0 when its total is 0.
RECURSIVE ChainWalk(_, _, _)
ChainWalk(d, at, k) ==
    LET valid == ByteAt(d, at)
        total == ByteAt(d, at + 1)
        position == Min(k, valid - 1)
        next == at + 2 * (valid + 1)
    IN IF k < total
       THEN [value |-> I16At(d, at + 2 * (position + 1)),
             end |-> at + 2 * (position + 1) + 2]
       ELSE IF ByteAt(d, next + 1) = 0 THEN [value |-> 0, end |-> next + 2]
       ELSE ChainWalk(d, next, k - total)

\* C19: FrameValues::get(k) returns the value the rule finds: the value at
\* position min(k, valid - 1) of the node if k < total, else what the rule
\* finds for k - total in the next node, 2 * (valid + 1) bytes further; it
\* returns it whenever the nodes and the value the rule reads lie in the data.
C19_ChainRule ==
    ValuesDone =>
        /\ IsOk(values_out.res) =>
               values_out.res.val = ChainWalk(frame_values.d, 0, frame_values.index).value
        /\ ChainWalk(frame_values.d, 0, frame_values.index).end <= frame_values.d.len =>
               IsOk(values_out.res)

\* the first node with total = 0 that the walk for frame index k is at, the
\* node at `at` included, or -1 when the walk finds a value first
RECURSIVE ZeroTotalNode(_, _, _)
ZeroTotalNode(d, at, k) ==
    LET valid == ByteAt(d, at)
        total == ByteAt(d, at + 1)
    IN IF total = 0 THEN at
       ELSE IF k < total THEN -1
       ELSE ZeroTotalNode(d, at + 2 * (valid + 1), k - total)

\* the first node with total = 0 that the walk for frame index k moves on
\* to from the node at `at`, or -1 when the walk finds a value first or
\* leaves a node whose valid is 255
RECURSIVE ZeroTotalNodeAfter(_, _, _)
ZeroTotalNodeAfter(d, at, k) ==
    LET valid == ByteAt(d, at)
        total == ByteAt(d, at + 1)
        next == at + 2 * (valid + 1)
    IN IF k < total \/ valid = U8Modulus - 1 THEN -1
       ELSE IF ByteAt(d, next + 1) = 0 THEN next
       ELSE ZeroTotalNodeAfter(d, next, k - total)

DefaultQuaternion == [x |-> 1, y |-> 0, z |-> 0, w |-> 0]
DefaultVector == <<0, 0, 0>>

\* Quaternion::from(RadianEuler), through cgmath::Quaternion::from(RadianEuler)
QuaternionFromRadianEuler(value) ==
    LET sin(h) == CASE h % 4 = 0 -> 0 [] h % 4 = 1 -> 1 [] h % 4 = 2 -> 0 [] h % 4 = 3 -> -1
        cos(h) == sin(h + 1)
        sy == sin(value[3])
        cy == cos(value[3])
        sp == sin(value[2])
        cp == cos(value[2])
        sr == sin(-value[1])
        cr == cos(-value[1])
    IN [w |-> cr * cp * cy + sr * sp * sy,
        x |-> sr * cp * cy - cr * sp * sy,
        y |-> cr * sp * cy + sr * cp * sy,
        z |-> cr * cp * sy - sr * sp * cy]

\* f16::from_bits(bits) as f32, for the halves that are 0 or a normal number
\* with an integer value
HalfFromBits(bits) ==
    LET negative == bits \div 32768 = 1
        exponent == (bits \div 1024) % 32
        mantissa == bits % 1024
        magnitude == IF exponent = 0 /\ mantissa = 0 THEN 0
                     ELSE ((1024 + mantissa) * 2 ^ (exponent - 15)) \div 1024
    IN IF negative THEN -magnitude ELSE magnitude

\* Vector::from(Vector48)
VectorFromVector48(vector) ==
    <<HalfFromBits(vector[1]), HalfFromBits(vector[2]), HalfFromBits(vector[3])>>

\* RotationData::rotation
Rotation(rotation_data, frame) ==
    CASE rotation_data.kind \in {"Quaternion48", "Quaternion64"} -> rotation_data.q
      [] rotation_data.kind = "Animated" ->
             QuaternionFromRadianEuler(
                 IF frame < Len(rotation_data.values) THEN rotation_data.values[frame + 1]
                 ELSE IF rotation_data.values # <<>>
                 THEN rotation_data.values[Len(rotation_data.values)]
                 ELSE <<0, 0, 0>>)
      [] rotation_data.kind = "None" -> DefaultQuaternion

\* PositionData::position
Position(position_data, frame) ==
    CASE position_data.kind = "Vector48" -> VectorFromVector48(position_data.vector)
      [] position_data.kind = "PositionValues" ->
             IF frame < Len(position_data.values) THEN position_data.values[frame + 1]
             ELSE DefaultVector
      [] position_data.kind = "None" -> DefaultVector

\* the rotation tracks: constant ones, animated ones of up to MaxFrames
\* Euler angles in half turns, and none
RotationTracks ==
    {[kind |-> kind, q |-> q] :
        kind \in {"Quaternion48", "Quaternion64"},
        q \in {[x |-> 0, y |-> 0, z |-> 0, w |-> 1], [x |-> 0, y |-> 1, z |-> 0, w |-> 0]}}
    \cup {[kind |-> "Animated", values |-> values] :
             values \in SeqsUpTo({<<0, 0, 0>>, <<1, 0, 0>>, <<0, 1, 1>>}, MaxFrames)}
    \cup {[kind |-> "None"]}

\* the position tracks: constant ones of three halves (1, 2, -2 and 0, 3, -1),
\* animated ones of up to MaxFrames vectors, and none
PositionTracks ==
    {[kind |-> "Vector48", vector |-> vector] :
        vector \in {<<15360, 16384, 49152>>, <<0, 16896, 48128>>}}
    \cup {[kind |-> "PositionValues", values |-> values] :
             values \in SeqsUpTo(Positions, MaxFrames)}
    \cup {[kind |-> "None"]}

\* Animation::rotation(frame) is called
RotationCall ==
    /\ track # NotRun
    /\ track_out = NotRun
    /\ \E frame \in 0 .. MaxFrames + 1 :
           track_out' = [call |-> "rotation", frame |-> frame,
                         ret |-> Rotation(track.rotation_data, frame)]
    /\ UNCHANGED <<track, overflow_checks, vvd_vars, strip_vars, mdl_data,
                   mdl_result, mesh_vars, model_vars, values_vars, read_vars, quat_vars,
                   vtx_vars, frames_vars, bone_vars>>

\* Animation::position(frame) is called
PositionCall ==
    /\ track # NotRun
    /\ track_out = NotRun
    /\ \E frame \in 0 .. MaxFrames + 1 :
           track_out' = [call |-> "position", frame |-> frame,
                         ret |-> Position(track.position_data, frame)]
    /\ UNCHANGED <<track, overflow_checks, vvd_vars, strip_vars, mdl_data,
                   mdl_result, mesh_vars, model_vars, values_vars, read_vars, quat_vars,
                   vtx_vars, frames_vars, bone_vars>>

InitTrack ==
    /\ track \in [rotation_data : RotationTracks, position_data : PositionTracks]
    /\ track_out = NotRun
    /\ overflow_checks = NotRun
    /\ mdl_data = NotRun /\ mdl_result = NotRun
    /\ VvdIdle /\ StripIdle /\ MeshIdle /\ ModelIdle /\ ValuesIdle /\ ReadIdle /\ QuatIdle
    /\ BonesIdle
    /\ FramesIdle
    /\ VtxIdle
NextTrack == RotationCall \/ PositionCall
SpecTrack == InitTrack /\ [][NextTrack]_vars

\* the value the claim gives for `frame` in the `values` of an animated track
ClampedValue(values, frame) == values[Min(frame, Len(values) - 1) + 1]

\* C17: rotation(frame) and position(frame) return the single decoded value
\* of a constant track for every frame, and for an animated track of len > 0
\* values the value stored at min(frame, len - 1) (as a quaternion, for a
\* rotation).
C17_ClampedTrack ==
    track_out # NotRun =>
        /\ track_out.call = "rotation" =>
               /\ track.rotation_data.kind \in {"Quaternion48", "Quaternion64"} =>
                      track_out.ret = track.rotation_data.q
               /\ track.rotation_data.kind = "Animated"
                  /\ track.rotation_data.values # <<>> =>
                      track_out.ret = QuaternionFromRadianEuler(
                          ClampedValue(track.rotation_data.values, track_out.frame))
        /\ track_out.call = "position" =>
               /\ track.position_data.kind = "Vector48" =>
                      track_out.ret = VectorFromVector48(track.position_data.vector)
               /\ track.position_data.kind = "PositionValues"
                  /\ track.position_data.values # <<>> =>
                      track_out.ret =
                          ClampedValue(track.position_data.values, track_out.frame)

(***************************************************************************)
(* lib.rs: read_single and Readable::read on their own, for the plain      *)
(* records of animation.rs: u16, ValueHeader and AnimationValuePointer.    *)
(***************************************************************************)
\* bytes of the longest buffer
MaxBuf == 8

\* the plain record types: their type_name, size_of, and fields
PodTypes ==
    {[name |-> "u16", size |-> U16Size],
     [name |-> "vmdl::mdl::raw::animation::ValueHeader", size |-> ValueHeaderSize],
     [name |-> "vmdl::mdl::raw::animation::AnimationValuePointer",
      size |-> AnimationValuePointerSize]}

\* pod_read_unaligned::<T>(data), `data` being the bytes from `at`
PodReadUnaligned(d, at, T) ==
    IF T.name = "u16" THEN U16At(d, at)
    ELSE IF T.size = ValueHeaderSize
    THEN [valid |-> ByteAt(d, at), total |-> ByteAt(d, at + 1)]
    ELSE <<U16At(d, at), U16At(d, at + U16Size), U16At(d, at + 2 * U16Size)>>

\* read_single::<T, _>(data, index) for an index of a signed or unsigned
\* type: its Result, and the bytes of `data` that were decoded
ReadSingle(d, index, T) ==
    LET r == ReadableAt(d.len, index, T.size, T.name)
    IN IF index < 0
       THEN [res |-> OutOfBounds(T.name, UsizeMax), touched |-> {}]
       ELSE IF ~IsOk(r) THEN [res |-> r, touched |-> {}]
       ELSE [res |-> Ok(PodReadUnaligned(d, index, T)),
             touched |-> index .. index + T.size - 1]

\* read_single is called
ReadSingleCall ==
    /\ read_call # NotRun
    /\ read_ret = NotRun
    /\ read_ret' = ReadSingle(read_call.d, read_call.index, read_call.T)
    /\ UNCHANGED <<read_call, overflow_checks, vvd_vars, strip_vars, mdl_data,
                   mdl_result, mesh_vars, model_vars, values_vars, track_vars, quat_vars,
                   vtx_vars, frames_vars, bone_vars>>

\* buffers of every length up to MaxBuf, with rising or falling bytes, read
\* at offsets before, in and after them
InitRead ==
    /\ \E len \in 0 .. MaxBuf, rising \in BOOLEAN, index \in -1 .. MaxBuf + 2,
          T \in PodTypes :
           read_call =
               [d |-> [len |-> len,
                       bytes |-> [p \in 0 .. len - 1 |->
                                     IF rising THEN p + 1 ELSE U8Modulus - 1 - p]],
                index |-> index, T |-> T]
    /\ read_ret = NotRun
    /\ overflow_checks = NotRun
    /\ mdl_data = NotRun /\ mdl_result = NotRun
    /\ VvdIdle /\ StripIdle /\ MeshIdle /\ ModelIdle /\ ValuesIdle /\ TrackIdle /\ VtxIdle
    /\ BonesIdle
    /\ FramesIdle
    /\ QuatIdle
NextRead == ReadSingleCall
SpecRead == InitRead /\ [][NextRead]_vars

ReadDone == read_call # NotRun /\ read_ret # NotRun

\* the little-endian number in the S bytes at O of the buffer
RECURSIVE LittleEndian(_, _, _)
LittleEndian(bytes, O, S) ==
    IF S = 0 THEN 0 ELSE bytes[O] + 256 * LittleEndian(bytes, O + 1, S - 1)

\* the fields of a record of type T in the bytes at O, as the claim has them
Decoded(bytes, O, T) ==
    IF T.name = "u16" THEN LittleEndian(bytes, O, 2)
    ELSE IF T.size = 2 THEN [valid |-> bytes[O], total |-> bytes[O + 1]]
    ELSE <<LittleEndian(bytes, O, 2), LittleEndian(bytes, O + 2, 2),
           LittleEndian(bytes, O + 4, 2)>>

\* C25: reading a record of S bytes at offset O of a buffer of L bytes gives
\* OutOfBounds with offset O if O > L, Eof(S) if O <= L and O + S > L, and
\* otherwise the record decoded from the bytes O .. O + S - 1; no byte
\* outside of the buffer is read.
C25_ReadSingle ==
    ReadDone /\ read_call.index >= 0 =>
        LET O == read_call.index
            S == read_call.T.size
            L == read_call.d.len
        IN /\ O > L => read_ret.res = OutOfBounds(read_call.T.name, O)
           /\ O <= L /\ O + S > L => read_ret.res = Eof(S)
           /\ O + S <= L => /\ read_ret.res = Ok(Decoded(read_call.d.bytes, O, read_call.T))
                            /\ read_ret.touched = O .. O + S - 1
           /\ read_ret.touched \subseteq 0 .. L - 1

\* an AnimationValuePointer was decoded from the last six bytes of a buffer
\* of eight
C25_Witness ==
    /\ ReadDone
    /\ read_call.T.size = AnimationValuePointerSize
    /\ read_call.index = 2
    /\ read_call.index + read_call.T.size = read_call.d.len
    /\ read_ret.res = Ok(<<3 + 256 * 4, 5 + 256 * 6, 7 + 256 * 8>>)
    /\ read_ret.touched = 2 .. 7

(***************************************************************************)
(* compressed_vector.rs: the w of Quaternion48 and Quaternion64.           *)
(*                                                                         *)
(* A component is kept as its numerator over the scale of its type (8 for  *)
(* Quaternion48, whose raw fields are multiples of 4096 in the model, and  *)
(* 1048576.5 for Quaternion64), so that products and sums are exact.  The  *)
(* square root is not taken: w is kept as its sign and its radicand, and   *)
(* the radicand as its 1.0 and its squares, the squares in the unit of the *)
(* product of two components.                                              *)
(***************************************************************************)
\* the greatest distance of a raw field of a Quaternion64 from its zero
MaxRaw == 2

Z_MASK == 32767
W_NEG_MASK == 32768
\* `a & mask` for the two masks of Quaternion48
BitAnd(a, mask) == IF mask = Z_MASK THEN a % 32768 ELSE (a \div 32768) * 32768

\* calc_w(x, y, z, w_neg)
calc_w(x, y, z, w_neg) ==
    [one |-> 1, squares |-> 0 - ((x * x) - (y * y) - (z * z)), neg |-> w_neg]

\* Quaternion48::x, y, z, in eighths
Quaternion48X(q) == (q.x - 32768) \div 4096
Quaternion48Y(q) == (q.y - 32768) \div 4096
Quaternion48Z(q) == (BitAnd(q.z, Z_MASK) - 16384) \div 2048
\* Quaternion48::w
Quaternion48W(q) ==
    calc_w(Quaternion48X(q), Quaternion48Y(q), Quaternion48Z(q),
           BitAnd(q.z, W_NEG_MASK) = W_NEG_MASK)

\* Quaternion64::val(offset), over 1048576.5: the u64 is kept as its bit
\* fields at 0, 21 and 42 and its bit 63
Quaternion64Val(q, offset) == q.field[offset] - 1048576
\* Quaternion64::w
Quaternion64W(q) ==
    calc_w(Quaternion64Val(q, 0), Quaternion64Val(q, 21), Quaternion64Val(q, 42),
           q.bit63 = 1)

\* w() is called on the quaternion
QuaternionWCall ==
    /\ quat # NotRun
    /\ quat_w = NotRun
    /\ quat_w' = IF quat.type = "Quaternion48" THEN Quaternion48W(quat.q)
                                                ELSE Quaternion64W(quat.q)
    /\ UNCHANGED <<quat, overflow_checks, vvd_vars, strip_vars, mdl_data, mdl_result,
                   mesh_vars, model_vars, values_vars, track_vars, read_vars, vtx_vars,
                   frames_vars, bone_vars>>

\* Quaternion48 with fields at multiples of a quarter of their range, and
\* Quaternion64 with fields around their zero, with and without the sign bit
InitQuat ==
    /\ \/ \E x \in {0, 16384, 32768, 49152}, y \in {0, 16384, 32768, 49152},
             z \in {0, 8192, 16384, 24576}, sign \in {0, W_NEG_MASK} :
              quat = [type |-> "Quaternion48", q |-> [x |-> x, y |-> y, z |-> z + sign]]
       \/ \E field \in [{0, 21, 42} -> 1048576 - MaxRaw .. 1048576 + MaxRaw],
             bit63 \in {0, 1} :
              quat = [type |-> "Quaternion64", q |-> [field |-> field, bit63 |-> bit63]]
    /\ quat_w = NotRun
    /\ overflow_checks = NotRun
    /\ mdl_data = NotRun /\ mdl_result = NotRun
    /\ VvdIdle /\ StripIdle /\ MeshIdle /\ ModelIdle /\ ValuesIdle /\ TrackIdle /\ VtxIdle
    /\ BonesIdle
    /\ FramesIdle
    /\ ReadIdle
NextQuat == QuaternionWCall
SpecQuat == InitQuat /\ [][NextQuat]_vars

QuatDone == quat # NotRun /\ quat_w # NotRun

\* the decoded x, y, z of the quaternion as the claim has them, as
\* numerators over 8 and over 1048576.5, and the 1.0 in the unit of their
\* squares (for Quaternion64 the squares of the model stay far below it)
ClaimXYZ ==
    IF quat.type = "Quaternion48"
    THEN [x |-> (quat.q.x - 32768) \div 4096, y |-> (quat.q.y - 32768) \div 4096,
          z |-> ((quat.q.z % 32768) - 16384) \div 2048,
          sign |-> quat.q.z >= 32768, one |-> <<64>>]
    ELSE [x |-> quat.q.field[0] - 1048576, y |-> quat.q.field[21] - 1048576,
          z |-> quat.q.field[42] - 1048576,
          sign |-> quat.q.bit63 = 1, one |-> <<>>]

\* C27: the w recovered for a Quaternion48 or Quaternion64 has
\* w * w = max(0, 1 - x * x - y * y - z * z) for the decoded x, y, z, and is
\* negative exactly when the sign bit is set.
C27_WRecovered ==
    QuatDone =>
        LET c == ClaimXYZ
            sum == c.x * c.x + c.y * c.y + c.z * c.z
        IN /\ quat_w.neg = c.sign
           /\ IF c.one # <<>> /\ sum >= c.one[1]
              THEN quat_w.one * c.one[1] + quat_w.squares = 0
              ELSE quat_w.one = 1 /\ quat_w.squares = 0 - sum

\* the part of C27 that holds: the sign of w
WSign == QuatDone => quat_w.neg = ClaimXYZ.sign

(***************************************************************************)
(* vtx/mod.rs and vtx/raw.rs: Vtx::read.                                   *)
(*                                                                         *)
(* A VTX file is its length and, per kind of record, the fields of the     *)
(* records by their offset in the file.  Offsets inside a record are       *)
(* relative to the start of the record, as each read hands `data[index..]` *)
(* to the reads below it.                                                  *)
(***************************************************************************)
VtxHeaderSize == 36
VtxBodyPartHeaderSize == 8
VtxModelHeaderSize == 8
ModelLodHeaderSize == 12
VtxMeshHeaderSize == 9
StripGroupHeaderSize == 25
StripHeaderSize == 27
VtxVertexSize == 9

\* the sizes with the LODs of a model walked by the size of a ModelHeader
VtxRecordSizeMutLodStride(kind) ==
    CASE kind = "BodyPart" -> VtxBodyPartHeaderSize
      [] kind = "Model" -> VtxModelHeaderSize
      [] kind = "ModelLod" -> VtxModelHeaderSize
      [] kind = "Mesh" -> VtxMeshHeaderSize
      [] kind = "StripGroup" -> StripGroupHeaderSize
      [] kind = "Strip" -> StripHeaderSize
      [] kind = "Vertex" -> VtxVertexSize
      [] kind = "VertexIndex" -> U16Size

\* size_of of the record of a kind
VtxRecordSize(kind) ==
    CASE kind = "BodyPart" -> VtxBodyPartHeaderSize
      [] kind = "Model" -> VtxModelHeaderSize
      [] kind = "ModelLod" -> ModelLodHeaderSize
      [] kind = "Mesh" -> VtxMeshHeaderSize
      [] kind = "StripGroup" -> StripGroupHeaderSize
      [] kind = "Strip" -> StripHeaderSize
      [] kind = "Vertex" -> VtxVertexSize
      [] kind = "VertexIndex" -> U16Size

\* the error `reader.read_le()?` gives when the cursor runs out of bytes: a
\* binrw error converted into a ModelError
BinrwError == [tag |-> "Binrw"]

\* `data.get(index..).ok_or_else(..)?` then `Cursor::new(data).read_le()?`
\* for a record of `size` bytes, on a slice of `len` bytes
ReadLeAt(len, index, size, kind) ==
    IF index > len THEN OutOfBounds(kind, index)
    ELSE IF size > len - index THEN BinrwError
    ELSE Ok(index)

ZeroVtxBodyPart == [model_count |-> 0, model_offset |-> 0]
ZeroVtxModel == [lod_count |-> 0, lod_offset |-> 0]
ZeroModelLod == [mesh_count |-> 0, mesh_offset |-> 0]
ZeroVtxMesh == [strip_group_count |-> 0, strip_group_offset |-> 0]
ZeroStripGroup ==
    [vertex_count |-> 0, vertex_offset |-> 0, index_count |-> 0, index_offset |-> 0,
     strip_count |-> 0, strip_offset |-> 0]
ZeroStrip ==
    [index_count |-> 0, index_offset |-> 0, vertex_count |-> 0, vertex_offset |-> 0,
     flags |-> 0]

RECURSIVE VtxReadTable(_, _, _, _, _, _, _)
RECURSIVE VtxReadRecord(_, _, _)

\* a record that owns one table of records of `kind`, kept in `field`
VtxOwner(field, children) ==
    IF ~IsOk(children.res) THEN children
    ELSE Sub(Ok([f \in {field} |-> children.res.val]), children.derefs)

\* StripGroup::read: the vertices, then the strips, then the indices
StripGroupRead(d, at) ==
    LET header == RecordAt(d.strip_groups, at, ZeroStripGroup)
        none == Sub(Ok(<<>>), {})
        group(vertices, strips, indices) ==
            IF ~IsOk(vertices.res) THEN vertices
            ELSE IF ~IsOk(strips.res)
                 THEN Sub(strips.res, vertices.derefs \cup strips.derefs)
            ELSE IF ~IsOk(indices.res)
                 THEN Sub(indices.res,
                          vertices.derefs \cup strips.derefs \cup indices.derefs)
            ELSE Sub(Ok([vertices |-> vertices.res.val, strips |-> strips.res.val,
                         indices |-> indices.res.val]),
                     vertices.derefs \cup strips.derefs \cup indices.derefs)
    IN group(VtxReadTable(d, "Vertex", at, header.vertex_offset, header.vertex_count,
                          0, none),
             VtxReadTable(d, "Strip", at, header.strip_offset, header.strip_count,
                          0, none),
             VtxReadTable(d, "VertexIndex", at, header.index_offset, header.index_count,
                          0, none))

\* X::read(data, header) for the record of `kind` at `at`
VtxReadRecord(d, kind, at) ==
    LET none == Sub(Ok(<<>>), {})
    IN CASE kind = "BodyPart" ->
              LET header == RecordAt(d.body_parts, at, ZeroVtxBodyPart)
              IN VtxOwner("models",
                          VtxReadTable(d, "Model", at, header.model_offset,
                                       header.model_count, 0, none))
         [] kind = "Model" ->
              LET header == RecordAt(d.models, at, ZeroVtxModel)
              IN VtxOwner("lods",
                          VtxReadTable(d, "ModelLod", at, header.lod_offset,
                                       header.lod_count, 0, none))
         [] kind = "ModelLod" ->
              LET header == RecordAt(d.lods, at, ZeroModelLod)
              IN VtxOwner("meshes",
                          VtxReadTable(d, "Mesh", at, header.mesh_offset,
                                       header.mesh_count, 0, none))
         [] kind = "Mesh" ->
              LET header == RecordAt(d.meshes, at, ZeroVtxMesh)
              IN VtxOwner("strip_groups",
                          VtxReadTable(d, "StripGroup", at, header.strip_group_offset,
                                       header.strip_group_count, 0, none))
         [] kind = "StripGroup" -> StripGroupRead(d, at)
         [] kind = "Strip" -> Sub(Ok(StripRead(RecordAt(d.strips, at, ZeroStrip))), {})
         [] kind = "Vertex" -> Sub(Ok([at |-> at]), {})
         [] kind = "VertexIndex" -> Sub(Ok([at |-> at]), {})

\* `indexes.map(|index| { .. X::read(data, header) }).collect::<Result<_>>()?`
\* over index_range(index, count, size_of::<header of kind>()), `data`
\* starting at `base`: the walk stops at the first error
VtxReadTable(d, kind, base, index, count, i, acc) ==
    IF i >= AsUsize(count) THEN acc
    ELSE LET rel == index_range(index, VtxRecordSize(kind), i)
             push(header, r) ==
                 IF ~IsOk(header) THEN Sub(header, acc.derefs \cup {base + rel})
                 ELSE IF ~IsOk(r.res)
                      THEN Sub(r.res, acc.derefs \cup {base + rel} \cup r.derefs)
                      ELSE VtxReadTable(d, kind, base, index, count, i + 1,
                                        Sub(Ok(Append(acc.res.val, r.res.val)),
                                            acc.derefs \cup {base + rel} \cup r.derefs))
         IN push(ReadLeAt(d.len - base, rel, VtxRecordSize(kind), kind),
                 VtxReadRecord(d, kind, base + rel))

\* Vtx::read(data): the Result, and the offsets that were dereferenced
VtxReadSub(d) ==
    IF VtxHeaderSize > d.len THEN Sub(BinrwError, {})
    ELSE VtxOwner("body_parts",
                  VtxReadTable(d, "BodyPart", 0, d.h.body_part_offset,
                               d.h.body_part_count, 0, Sub(Ok(<<>>), {})))

(***************************************************************************)
(* The VTX files of the model: one body part with one model of up to two   *)
(* LODs, a mesh for each LOD, and one strip group with one vertex, three   *)
(* indices and one strip.                                                  *)
(***************************************************************************)
VtxBodyPartBase == VtxHeaderSize
VtxModelBase == VtxBodyPartBase + VtxBodyPartHeaderSize
VtxLodBase == VtxModelBase + VtxModelHeaderSize
VtxMeshBase == VtxLodBase + 2 * ModelLodHeaderSize
VtxStripGroupBase == VtxMeshBase + 2 * VtxMeshHeaderSize
VtxVertexAt == VtxStripGroupBase + StripGroupHeaderSize
VtxIndexAt == VtxVertexAt + VtxVertexSize
VtxStripAt == VtxIndexAt + 3 * U16Size
VtxFullLen == VtxStripAt + StripHeaderSize

\* where the second LOD of the model and its mesh are
VtxLod1 == VtxLodBase + ModelLodHeaderSize
VtxMesh1 == VtxMeshBase + VtxMeshHeaderSize

\* the file by the number of LODs of its model, the meshes of each LOD, the
\* mesh_offset of the second LOD, the strip groups of each mesh and the
\* strip_group_offset of the second LOD's mesh
VtxFile(len, lod_count, mesh_count, mesh_offset, group_count, group_offset) ==
    [len |-> len,
     h |-> [body_part_count |-> 1, body_part_offset |-> VtxBodyPartBase],
     body_parts |->
         (VtxBodyPartBase :>
             [model_count |-> 1, model_offset |-> VtxModelBase - VtxBodyPartBase]),
     models |->
         (VtxModelBase :>
             [lod_count |-> lod_count, lod_offset |-> VtxLodBase - VtxModelBase]),
     lods |->
         (VtxLodBase :>
             [mesh_count |-> mesh_count[1], mesh_offset |-> VtxMeshBase - VtxLodBase])
         @@ (VtxLod1 :> [mesh_count |-> mesh_count[2], mesh_offset |-> mesh_offset]),
     meshes |->
         (VtxMeshBase :>
             [strip_group_count |-> group_count[1],
              strip_group_offset |-> VtxStripGroupBase - VtxMeshBase])
         @@ (VtxMesh1 :>
                [strip_group_count |-> group_count[2],
                 strip_group_offset |-> group_offset]),
     strip_groups |->
         (VtxStripGroupBase :>
             [vertex_count |-> 1, vertex_offset |-> VtxVertexAt - VtxStripGroupBase,
              index_count |-> 3, index_offset |-> VtxIndexAt - VtxStripGroupBase,
              strip_count |-> 1, strip_offset |-> VtxStripAt - VtxStripGroupBase]),
     strips |->
         (VtxStripAt :>
             [index_count |-> 3, index_offset |-> 0, vertex_count |-> 1,
              vertex_offset |-> 0, flags |-> IS_TRI_LIST])]

\* lod_count of the model
MaxLods == 2

VtxInputs ==
    {VtxFile(len, lod_count, mesh_count, mesh_offset, group_count, group_offset) :
        len \in {VtxFullLen, VtxLod1 + ModelLodHeaderSize - 1, VtxHeaderSize - 1},
        lod_count \in 0 .. MaxLods,
        mesh_count \in {0, 1} \X {0, 1},
        mesh_offset \in {VtxMesh1 - VtxLod1, VtxFullLen, -1},
        group_count \in {0, 1} \X {0, 1},
        group_offset \in {VtxStripGroupBase - VtxMesh1, VtxFullLen}}

\* Vtx::read is called on the file
VtxReadCall ==
    /\ vtx_data # NotRun
    /\ vtx_result = NotRun
    /\ vtx_result' = VtxReadSub(vtx_data)
    /\ UNCHANGED <<vtx_data, vvd_vars, strip_vars, mdl_vars, mesh_vars, model_vars,
                   values_vars, track_vars, read_vars, quat_vars, frames_vars, bone_vars>>

InitVtx ==
    /\ vtx_data \in VtxInputs /\ vtx_result = NotRun
    /\ VvdIdle /\ StripIdle /\ MdlIdle /\ MeshIdle /\ ModelIdle /\ ValuesIdle /\ BonesIdle
    /\ FramesIdle
    /\ TrackIdle /\ ReadIdle /\ QuatIdle /\ FramesIdle /\ BonesIdle
NextVtx == VtxReadCall
SpecVtx == InitVtx /\ [][NextVtx]_vars

(***************************************************************************)
(* Properties of Vtx::read.                                                *)
(***************************************************************************)
VtxDone == vtx_data # NotRun /\ vtx_result # NotRun

\* the models of the file that Vtx::read parsed: their header was read
ParsedVtxModels ==
    {at \in DOMAIN vtx_data.models :
        at \in vtx_result.derefs /\ at + VtxModelHeaderSize <= vtx_data.len}

\* where LOD i of the model at `at` is
LodAt(at, i) == at + vtx_data.models[at].lod_offset + i * ModelLodHeaderSize

\* the file with every LOD but the first of each model taken out
FirstLodOnly(d) ==
    [d EXCEPT !.models =
        [at \in DOMAIN d.models |->
            [d.models[at] EXCEPT !.lod_count = IF @ > 1 THEN 1 ELSE @]]]

\* the models of a parsed Vtx
VtxModelsOf(vtx) == Flatten([p \in DOMAIN vtx.body_parts |-> vtx.body_parts[p].models])

\* C28: a parsed VTX model holds at most its first LOD; the LOD records
\* with index >= 1 are not dereferenced; a file whose first LODs parse is
\* parsed, whatever its higher LODs hold
C28_FirstLodOnly ==
    VtxDone =>
        /\ IsOk(vtx_result.res) =>
               \A k \in DOMAIN VtxModelsOf(vtx_result.res.val) :
                   Len(VtxModelsOf(vtx_result.res.val)[k].lods) <= 1
        /\ \A at \in ParsedVtxModels :
               \A i \in 1 .. vtx_data.models[at].lod_count - 1 :
                   LodAt(at, i) \notin vtx_result.derefs
        /\ IsOk(VtxReadSub(FirstLodOnly(vtx_data)).res) => IsOk(vtx_result.res)

\* the LODs kept for the model of the file
LodsOf(vtx) == VtxModelsOf(vtx)[1].lods

\* C28 as amended: Vtx::read keeps every LOD of a model, lod_count of them,
\* and dereferences the record of each; when the parse of a LOD fails, the
\* parse of the file fails with that error
C28_EveryLodRead ==
    VtxDone =>
        /\ IsOk(vtx_result.res) =>
               /\ \A k \in DOMAIN VtxModelsOf(vtx_result.res.val) :
                      Len(VtxModelsOf(vtx_result.res.val)[k].lods)
                      = vtx_data.models[VtxModelBase].lod_count
               /\ \A at \in ParsedVtxModels :
                      \A i \in 0 .. vtx_data.models[at].lod_count - 1 :
                          LodAt(at, i) \in vtx_result.derefs
        /\ \A at \in ParsedVtxModels :
               \A i \in 0 .. vtx_data.models[at].lod_count - 1 :
                   LET lod == LodAt(at, i)
                       header == ReadLeAt(vtx_data.len, lod, ModelLodHeaderSize, "ModelLod")
                   IN /\ lod \in vtx_result.derefs
                      /\ IsOk(header)
                      /\ ~IsOk(VtxReadRecord(vtx_data, "ModelLod", lod).res)
                      => ~IsOk(vtx_result.res)

\* a file with two LODs, each with a mesh and a strip group, was parsed: the
\* model holds both
C28_Witness ==
    /\ VtxDone /\ IsOk(vtx_result.res)
    /\ vtx_data.models[VtxModelBase].lod_count = 2
    /\ Len(LodsOf(vtx_result.res.val)) = 2
    /\ Len(LodsOf(vtx_result.res.val)[2].meshes) = 1
    /\ Len(LodsOf(vtx_result.res.val)[2].meshes[1].strip_groups) = 1
    /\ VtxLod1 \in vtx_result.derefs

(***************************************************************************)
(* mdl/raw/animation.rs: the frames of an animated track.                  *)
(*                                                                         *)
(* The value data of a track starts with its AnimationValuePointer, whose  *)
(* first pointer leads to a chain of two nodes right behind it; the other  *)
(* two pointers are 0.                                                     *)
(***************************************************************************)
\* the greatest frame_count of a description
MaxFrameCount == 258

FrameCounts == {0, 1, U8Modulus - 1, U8Modulus, U8Modulus + 1, MaxFrameCount}

\* where the chain of the first pointer starts
ChainBase == AnimationValuePointerSize

\* the value data of the track: the pointers and two nodes
TrackData(valid, total, len) ==
    LET second == ChainBase + U16Size * (valid[1] + 1)
    IN [len |-> len,
        bytes |-> (0 :> ChainBase)
                  @@ NodeBytes(ChainBase, 1, valid[1], total[1])
                  @@ NodeBytes(second, 2, valid[2], total[2])]

\* the lengths of the value data: whole with room for a third header, and
\* cut in the second node
TrackLens(valid) ==
    {ChainBase + U16Size * (valid[1] + 1) + U16Size * (valid[2] + 1) + ValueHeaderSize,
     ChainBase + U16Size * (valid[1] + 1) + ValueHeaderSize}

\* read_animation collects the values of the frames of the track
ReadFramesCall ==
    /\ frames_call # NotRun
    /\ frames_out = NotRun
    /\ frames_out' = ReadFrames(frames_call.d, overflow_checks, 0, frames_call.frames)
    /\ UNCHANGED <<frames_call, overflow_checks, vvd_vars, strip_vars, mdl_data,
                   mdl_result, mesh_vars, model_vars, values_vars, track_vars,
                   read_vars, quat_vars, vtx_vars, bone_vars>>

InitFrames ==
    /\ \E valid \in {1, 2} \X {1, 2}, total \in {1, U8Modulus - 1} \X {1, 3} :
           \E len \in TrackLens(valid), frames \in FrameCounts :
               frames_call = [d |-> TrackData(valid, total, len), frames |-> frames]
    /\ frames_out = NotRun
    /\ overflow_checks \in BOOLEAN
    /\ mdl_data = NotRun /\ mdl_result = NotRun
    /\ VvdIdle /\ StripIdle /\ MeshIdle /\ ModelIdle /\ ValuesIdle /\ TrackIdle
    /\ BonesIdle
    /\ ReadIdle /\ QuatIdle /\ VtxIdle /\ BonesIdle
NextFrames == ReadFramesCall
SpecFrames == InitFrames /\ [][NextFrames]_vars

FramesDone == frames_call # NotRun /\ frames_out # NotRun

\* what the chain walks of the three pointers give for frame index `frame`
ChainWalkValues(frame) ==
    [k \in 1 .. 3 |->
        LET base_pointer == U16At(frames_call.d, U16Size * (k - 1))
        IN IF base_pointer = 0 THEN Ok(0)
           ELSE FrameValuesGet(frames_call.d, overflow_checks, base_pointer, frame).res]

\* entry `frame` of the decoded track is the chain-walk values of `index`
EntryIs(frame, index) ==
    \A k \in 1 .. 3 :
        ChainWalkValues(index)[k] = Ok(frames_out.res.val[frame + 1][k])

\* C29: a decoded animated track of a description with frame_count = n holds
\* n entries, and entry f is built from the chain-walk values for frame
\* index f itself, also for f >= 256
C29_FrameIndexNotWrapped ==
    FramesDone /\ IsOk(frames_out.res) =>
        /\ Len(frames_out.res.val) = frames_call.frames
        /\ \A f \in 0 .. frames_call.frames - 1 : EntryIs(f, f)

\* what holds instead: entry f is built from the chain-walk values for
\* frame index f mod 256
FrameIndexWrapped ==
    FramesDone /\ IsOk(frames_out.res) =>
        /\ Len(frames_out.res.val) = frames_call.frames
        /\ \A f \in 0 .. frames_call.frames - 1 : EntryIs(f, f % U8Modulus)

(***************************************************************************)
(* handle/mod.rs: bone handles.                                            *)
(*                                                                         *)
(* A handle is the key of its bone in mdl.bones, counted from 0; of the    *)
(* Mdl only the parents of the bones matter.  Bone::read copies the parent *)
(* of a bone from the file unchecked, so a parsed Mdl can hold any parent. *)
(***************************************************************************)
\* bones of an Mdl
MaxHandleBones == 3
\* items an iterator is followed for
MaxYield == 5

\* usize::from(bone_id): the place of the bone in mdl.bones; -1 is no place
BoneIdToUsize(bone_id) == AsUsize(bone_id)

\* Handle::parent: the key of the parent, or [] when mdl.bones has no such bone
HandleParent(parents, key) ==
    LET index == BoneIdToUsize(parents[key + 1])
    IN IF index < Len(parents) THEN <<index>> ELSE <<>>

\* Handle::children, collected: the bones whose parent is the key, in the
\* order of mdl.bones
HandleChildren(parents, key) ==
    LET ids == {i \in 0 .. Len(parents) - 1 : parents[i + 1] = key}
        RECURSIVE ordered(_, _)
        ordered(i, acc) ==
            IF i >= Len(parents) THEN acc
            ELSE ordered(i + 1, IF i \in ids THEN Append(acc, i) ELSE acc)
    IN ordered(0, <<>>)

\* BoneAncestorsIter::next
AncestorsNext ==
    /\ bone_handle # NotRun /\ bone_handle.op = "ancestors"
    /\ ~ancestors_iter.done
    /\ Len(ancestors_iter.yielded) < MaxYield
    /\ LET next == HandleParent(bone_handle.parents, ancestors_iter.bone)
       IN ancestors_iter' =
              IF next = <<>> THEN [ancestors_iter EXCEPT !.done = TRUE]
              ELSE [ancestors_iter EXCEPT !.bone = next[1],
                                          !.yielded = Append(@, next[1])]
    /\ UNCHANGED <<bone_handle, tree_iter, affected, vvd_vars, strip_vars, mdl_vars,
                   mesh_vars, model_vars, values_vars, track_vars, read_vars, quat_vars,
                   vtx_vars, frames_vars>>

\* BoneTreeIter::next
TreeNext ==
    /\ bone_handle # NotRun /\ bone_handle.op = "tree"
    /\ ~tree_iter.done
    /\ Len(tree_iter.yielded) < MaxYield
    /\ tree_iter' =
           IF tree_iter.queue = <<>> THEN [tree_iter EXCEPT !.done = TRUE]
           ELSE LET next == Head(tree_iter.queue)
                IN [tree_iter EXCEPT
                       !.queue = Tail(@) \o HandleChildren(bone_handle.parents, next),
                       !.yielded = Append(@, next)]
    /\ UNCHANGED <<bone_handle, ancestors_iter, affected, vvd_vars, strip_vars, mdl_vars,
                   mesh_vars, model_vars, values_vars, track_vars, read_vars, quat_vars,
                   vtx_vars, frames_vars>>

\* is_affected_by(bone_id): the comparison with the key of the handle, then
\* one turn of `self.ancestors().any(..)` at a time
IsAffectedByStep ==
    /\ bone_handle # NotRun /\ bone_handle.op = "is_affected_by"
    /\ affected.ret = "running"
    /\ affected.turns < MaxYield
    /\ LET next == HandleParent(bone_handle.parents, affected.bone)
       IN affected' =
              IF bone_handle.key = bone_handle.bone_id
              THEN [affected EXCEPT !.ret = "true"]
              ELSE IF next = <<>> THEN [affected EXCEPT !.ret = "false"]
              ELSE IF next[1] = bone_handle.bone_id
                   THEN [affected EXCEPT !.ret = "true", !.turns = @ + 1]
                   ELSE [affected EXCEPT !.bone = next[1], !.turns = @ + 1]
    /\ UNCHANGED <<bone_handle, ancestors_iter, tree_iter, vvd_vars, strip_vars,
                   mdl_vars, mesh_vars, model_vars, values_vars, track_vars, read_vars,
                   quat_vars, vtx_vars, frames_vars>>

\* the parents of the bones of an Mdl with n bones: a root, a bone of the
\* Mdl, or a place past the last bone
ParentTables(n) == [1 .. n -> -1 .. n]

InitBones ==
    /\ \E n \in 1 .. MaxHandleBones :
           \E parents \in ParentTables(n), key \in 0 .. n - 1, bone_id \in 0 .. n - 1,
              op \in {"ancestors", "tree", "is_affected_by"} :
               bone_handle = [parents |-> parents, key |-> key, bone_id |-> bone_id,
                              op |-> op]
    /\ ancestors_iter = [bone |-> bone_handle.key, yielded |-> <<>>, done |-> FALSE]
    /\ tree_iter = [queue |-> <<bone_handle.key>>, yielded |-> <<>>, done |-> FALSE]
    /\ affected = [bone |-> bone_handle.key, turns |-> 0, ret |-> "running"]
    /\ VvdIdle /\ StripIdle /\ MdlIdle /\ MeshIdle /\ ModelIdle /\ ValuesIdle
    /\ TrackIdle /\ ReadIdle /\ QuatIdle /\ VtxIdle /\ FramesIdle
NextBones == AncestorsNext \/ TreeNext \/ IsAffectedByStep
SpecBones == InitBones /\ [][NextBones]_vars

(***************************************************************************)
(* Properties of the bone handles.                                         *)
(***************************************************************************)
\* the chain parent, grandparent, .. of a bone whose parents precede it
RECURSIVE ChainToRoot(_, _)
ChainToRoot(parents, key) ==
    IF parents[key + 1] \in 0 .. key - 1
    THEN <<parents[key + 1]>> \o ChainToRoot(parents, parents[key + 1])
    ELSE <<>>

\* the bones that have `key` on their chain, and `key` itself
Descendants(parents, key) ==
    {i \in 0 .. Len(parents) - 1 :
        i = key \/ \E k \in DOMAIN ChainToRoot(parents, i) : ChainToRoot(parents, i)[k] = key}

\* how far below `key` a bone of its tree is
Depth(parents, key, i) ==
    IF i = key THEN 0
    ELSE CHOOSE k \in DOMAIN ChainToRoot(parents, i) : ChainToRoot(parents, i)[k] = key

NoRepeats(seq) == \A i, j \in DOMAIN seq : seq[i] = seq[j] => i = j

\* C30: on a parsed Mdl, ancestors() yields no more bones than the Mdl has
\* and ends at a root; tree() yields no bone twice; is_affected_by ends
\* within as many turns as the Mdl has bones, and is true exactly when
\* bone_id is the bone itself or was yielded by ancestors()
C30_HandlesTerminate ==
    bone_handle # NotRun =>
        /\ Len(ancestors_iter.yielded) < Len(bone_handle.parents)
        /\ NoRepeats(ancestors_iter.yielded)
        /\ NoRepeats(tree_iter.yielded)
        /\ affected.turns < Len(bone_handle.parents) \/ affected.ret # "running"
        /\ affected.turns <= Len(bone_handle.parents)

\* an Mdl whose parents precede their children, -1 marking a root
ParentsPrecede ==
    \A i \in 0 .. Len(bone_handle.parents) - 1 : bone_handle.parents[i + 1] \in -1 .. i - 1

\* the part of C30 that holds: on an Mdl whose parents precede their
\* children the three operations end, ancestors() with the chain to the
\* root, tree() with the bone and its descendants once each and nearer
\* ones first, is_affected_by with the membership in bone and ancestors
HandlesOfOrderedBones ==
    bone_handle # NotRun /\ ParentsPrecede =>
        LET parents == bone_handle.parents
            chain == ChainToRoot(parents, bone_handle.key)
        IN /\ Len(ancestors_iter.yielded) <= Len(chain)
           /\ ancestors_iter.yielded = SubSeq(chain, 1, Len(ancestors_iter.yielded))
           /\ ancestors_iter.done => ancestors_iter.yielded = chain
           /\ NoRepeats(tree_iter.yielded)
           /\ \A k \in DOMAIN tree_iter.yielded :
                  tree_iter.yielded[k] \in Descendants(parents, bone_handle.key)
           /\ \A j, k \in DOMAIN tree_iter.yielded :
                  j < k => Depth(parents, bone_handle.key, tree_iter.yielded[j])
                           <= Depth(parents, bone_handle.key, tree_iter.yielded[k])
           /\ tree_iter.done =>
                  {tree_iter.yielded[k] : k \in DOMAIN tree_iter.yielded}
                  = Descendants(parents, bone_handle.key)
           /\ affected.turns <= Len(chain) + 1
           /\ affected.ret # "running" =>
                  (affected.ret = "true") =
                      (bone_handle.bone_id = bone_handle.key
                       \/ \E k \in DOMAIN chain : chain[k] = bone_handle.bone_id)

\* with ordered parents every operation ends within the bound of the model
OrderedBonesEnd ==
    bone_handle # NotRun /\ ParentsPrecede =>
        /\ Len(ancestors_iter.yielded) < MaxYield
        /\ Len(tree_iter.yielded) < MaxYield
        /\ affected.turns < MaxYield
====
